---- MODULE Spec2Model ----
(***************************************************************************)
(* LibSee (src/libsee.c): an LD_PRELOAD shim whose exported wrappers       *)
(* count calls and CPU cycles of libc functions per core and print a       *)
(* report when the library is unloaded.                                    *)
(*                                                                         *)
(* The model follows the C source statement by statement.  Every wrapper   *)
(* is one expansion of libsee_return / libsee_noreturn / libsee_assign;    *)
(* the catalog of 94 covered symbols is represented by five of them, one   *)
(* for each shape a wrapper can have:                                      *)
(*   strcpy_s  libsee_return, resolved only under __STDC_LIB_EXT1__        *)
(*   strlen    libsee_return                                               *)
(*   free      libsee_noreturn (void)                                      *)
(*   printf    variadic, libsee_assign on the sibling vprintf              *)
(*   vprintf   libsee_return, the sibling itself                           *)
(* size_t arithmetic is modulo 2^SizeBits.                                 *)
(*                                                                         *)
(* Threads interleave statement by statement; `+=` and `++` on a counter   *)
(* are a load and a store.  What the language leaves undefined is a        *)
(* choice among its outcomes: a call through a null slot kills the         *)
(* process; an index past the end of a counter array faults, lands in the  *)
(* neighbouring array or lands in other memory; the unordered store of the *)
(* flag `initialized` may be seen before the stores to the slots.          *)
(***************************************************************************)
EXTENDS Integers, Sequences, FiniteSets, TLC

(***************************************************************************)
(* Bounds of the model.                                                    *)
(***************************************************************************)
\* Configured number of counter banks (the source's default is 1024).
LIBSEE_MAX_THREADS == 2
\* The hardware reports core identifiers 0 .. MaxCoreId.
MaxCoreId == 2
\* Width of size_t in the model, in bits.
SizeBits == 7
\* Wrapper invocations one thread has on its stack below the running one.
MaxNesting == 2
\* Wrapper calls started in one run of the process.
MaxCalls == 2
\* The process may hold the file descriptors 0 .. MaxFd.
MaxFd == 3
\* A double's binary fraction is held in FractionLimbs limbs of LimbBits bits.
LimbBits == 16
FractionLimbs == 5

\* Significant bits of a double (the type of percent_cycles).
DBL_MANT_DIG == 53
\* `file_descriptor = 1` in syscall_print, the descriptor close_stdout closes.
file_descriptor == 1

SizeMod == 2 ^ SizeBits
Threads == {1, 2}
MainThread == CHOOSE t \in Threads : \A u \in Threads : t <= u
CoreIds == 0 .. MaxCoreId
Banks == 0 .. (LIBSEE_MAX_THREADS - 1)
Args == {0, 1}
RetVals == {0, 1}
\* A null function pointer; any other pointer is a dlsym result.
NULL == <<"null">>
Void == "void"
None == "none"
Archs == {"aarch64", "x86_64", "other"}
\* How the link placed the two static arrays of counters: libsee_thread_calls
\* directly after libsee_thread_cycles, directly before it, or not adjacent.
Layouts == {"cycles_calls", "calls_cycles", "apart"}
Outside == "outside"

(***************************************************************************)
(* The three lists in full, each as the source writes it.                  *)
(***************************************************************************)
\* `size_t indexed[94];`
indexed_size == 94

\* The fields of thread_local_counters.named, in the order of declaration.
thread_local_counters_named ==
    <<"strcpy", "strcpy_s", "strncpy", "strncpy_s", "strcat", "strcat_s",
      "strncat", "strncat_s", "strxfrm", "strlen", "strnlen_s", "strcmp",
      "strncmp", "strcoll", "strchr", "strrchr", "strspn", "strcspn",
      "strpbrk", "strstr", "strtok", "strtok_s", "memchr", "memcmp", "memset",
      "memset_s", "memcpy", "memcpy_s", "memmove", "memmove_s", "strerror",
      "strerror_s", "memmem", "memrchr", "malloc", "calloc", "realloc",
      "free", "aligned_alloc", "qsort", "qsort_s", "bsearch", "bsearch_s",
      "srand", "rand", "fopen", "freopen", "fclose", "fflush", "setbuf",
      "setvbuf", "fread", "fwrite", "fseek", "ftell", "fsetpos", "fgetpos",
      "rewind", "clearerr", "feof", "ferror", "perror", "scanf", "fscanf",
      "sscanf", "vscanf", "vfscanf", "vsscanf", "printf", "fprintf",
      "sprintf", "snprintf", "vprintf", "vfprintf", "vsprintf", "vsnprintf",
      "difftime", "time", "clock", "timespec_get", "timespec_getres",
      "asctime", "asctime_s", "ctime", "ctime_s", "strftime", "wcsftime",
      "gmtime", "gmtime_r", "gmtime_s", "localtime", "localtime_r",
      "localtime_s", "mktime">>

\* The fields of struct real_apis, in the order of declaration.
real_apis_fields ==
    <<"strcpy", "strcpy_s", "strncpy", "strncpy_s", "strcat", "strcat_s",
      "strncat", "strncat_s", "strxfrm", "strlen", "strnlen_s", "strcmp",
      "strncmp", "strcoll", "strchr", "strrchr", "strspn", "strcspn",
      "strpbrk", "strstr", "strtok", "strtok_s", "memchr", "memcmp", "memset",
      "memset_s", "memcpy", "memcpy_s", "memmove", "memmove_s", "strerror",
      "strerror_s", "memmem", "memrchr", "malloc", "calloc", "realloc",
      "free", "aligned_alloc", "qsort", "qsort_s", "bsearch", "bsearch_s",
      "srand", "rand", "fopen", "freopen", "fclose", "fflush", "setbuf",
      "setvbuf", "fread", "fwrite", "fseek", "ftell", "fsetpos", "fgetpos",
      "rewind", "clearerr", "feof", "ferror", "perror", "scanf", "fscanf",
      "sscanf", "vscanf", "vfscanf", "vsscanf", "printf", "fprintf",
      "sprintf", "snprintf", "vprintf", "vfprintf", "vsprintf", "vsnprintf",
      "difftime", "time", "clock", "timespec_get", "timespec_getres",
      "asctime", "asctime_s", "ctime", "ctime_s", "strftime", "wcsftime",
      "gmtime", "gmtime_r", "gmtime_s", "localtime", "localtime_r",
      "localtime_s", "mktime">>

\* The initializers of named_stats[] in libsee_finalize, in order.
named_stats_initializers ==
    <<"strcpy", "strcpy_s", "strncpy", "strncpy_s", "strcat", "strcat_s",
      "strncat", "strncat_s", "strxfrm", "strlen", "strnlen_s", "strcmp",
      "strncmp", "strcoll", "strchr", "strrchr", "strspn", "strcspn",
      "strpbrk", "strstr", "strtok", "strtok_s", "memchr", "memcmp", "memset",
      "memset_s", "memcpy", "memcpy_s", "memmove", "memmove_s", "strerror",
      "strerror_s", "memmem", "memrchr", "malloc", "calloc", "realloc",
      "free", "aligned_alloc", "qsort", "qsort_s", "bsearch", "bsearch_s",
      "srand", "rand", "fopen", "freopen", "fclose", "fflush", "setbuf",
      "setvbuf", "fread", "fwrite", "fseek", "ftell", "fsetpos", "fgetpos",
      "rewind", "clearerr", "feof", "ferror", "perror", "scanf", "fscanf",
      "sscanf", "vscanf", "vfscanf", "vsscanf", "printf", "fprintf",
      "sprintf", "snprintf", "vprintf", "vfprintf", "vsprintf", "vsnprintf",
      "difftime", "time", "clock", "timespec_get", "timespec_getres",
      "asctime", "asctime_s", "ctime", "ctime_s", "strftime", "wcsftime",
      "gmtime", "gmtime_r", "gmtime_s", "localtime", "localtime_r",
      "localtime_s", "mktime">>

\* The names the model keeps, out of a list in full.
Kept(name) ==
    name \in {"strcpy_s", "strlen", "free", "printf", "vprintf"}

\* A report whose labels for strlen and free are exchanged.
named_stats_labels_exchanged ==
    <<"strcpy_s", "free", "strlen", "printf", "vprintf">>

(***************************************************************************)
(* The catalog, in the order of the source.  The same ordered list is      *)
(* written three times in the source: the fields of                        *)
(* thread_local_counters.named, the fields of real_apis and the labels of  *)
(* named_stats.                                                            *)
(***************************************************************************)
thread_local_counters == <<"strcpy_s", "strlen", "free", "printf", "vprintf">>
real_apis == <<"strcpy_s", "strlen", "free", "printf", "vprintf">>
named_stats_labels == <<"strcpy_s", "strlen", "free", "printf", "vprintf">>

counters_per_thread == Len(thread_local_counters)
Indexes == 1 .. counters_per_thread
Symbols == {real_apis[i] : i \in 1 .. Len(real_apis)}

\* Position of the field `name` in the union: .named.name is .indexed[i - 1].
Field(name) == CHOOSE i \in Indexes : thread_local_counters[i] = name

\* The symbols of Annex K, resolved only #if defined(__STDC_LIB_EXT1__).
AnnexK == {"strcpy_s"}

(***************************************************************************)
(* The exported wrappers: which macro each expands and the function_name   *)
(* it passes to the macro.                                                 *)
(***************************************************************************)
Wrappers == Symbols

WrapperMacro(w) ==
    CASE w = "free" -> "libsee_noreturn"
      [] w = "printf" -> "libsee_assign"
      [] OTHER -> "libsee_return"

function_name(w) == IF w = "printf" THEN "vprintf" ELSE w

(***************************************************************************)
(* Hardware probe.                                                         *)
(***************************************************************************)
\* `hw` is the identifier of the core the thread runs on: MPIDR_EL1 affinity
\* level 0 on aarch64, the ECX output of RDTSCP on x86, a fixed 0 elsewhere.
libsee_get_cpu_index(a, hw) ==
    CASE a = "aarch64" -> hw % 256
      [] a = "x86_64" -> hw
      [] OTHER -> 0

\* A probe that reads the counter in every build.
ReadCounterAlways(a, counter) == counter

\* `counter` is the free-running cycle counter of the machine.
libsee_get_cpu_cycle(a, counter) ==
    CASE a = "aarch64" -> counter
      [] a = "x86_64" -> counter
      [] OTHER -> 0

\* dlsym(RTLD_NEXT, name): the next definition of `name` in the load order.
dlsym(name) == <<"next", name>>

\* The value the call dlsym(RTLD_NEXT, name) gives back in the process `w`:
\* a null pointer where no object after this one defines the name.
Lookup(w, name) == IF name \in w.missing THEN NULL ELSE dlsym(name)

(***************************************************************************)
(* The raw output channel: system calls issued by inline assembly.  A      *)
(* build for an architecture without such assembly issues none.            *)
(***************************************************************************)
Descriptors == 0 .. MaxFd
Closed == "closed"
\* The control terminal /dev/tty, and any other file a descriptor may name.
ControlTerminal == "tty"
OtherFile == "file"
\* The return value of a system call that failed (a negated errno).
Failed == -1

\* The descriptor table of a process whose descriptors 0 and 1 are as given
\* and whose standard error is the terminal.
Stdio(in, out) ==
    [d \in Descriptors |->
        CASE d = 0 -> in
          [] d = 1 -> out
          [] d = 2 -> ControlTerminal
          [] OTHER -> Closed]

\* Both closed, only descriptor 1 closed, descriptor 1 still open (on the
\* terminal or redirected).
StdioAtUnload ==
    {Stdio(Closed, Closed), Stdio(ControlTerminal, Closed),
     Stdio(ControlTerminal, ControlTerminal), Stdio(ControlTerminal, OtherFile)}

NewKernel(fds) == [fds |-> fds, tty |-> <<>>, file |-> <<>>, calls |-> <<>>]

\* The kernel after a system call that changes nothing but is recorded.
Recorded(k, name, ret) ==
    [k EXCEPT !.calls = Append(@, [name |-> name, ret |-> ret])]

\* open("/dev/tty", O_WRONLY, 0): the lowest descriptor that is free.
sys_open(k, w) ==
    LET free == {d \in Descriptors : k.fds[d] = Closed} IN
    IF ~w.tty \/ free = {} THEN Recorded(k, "open", Failed)
    ELSE LET d == CHOOSE e \in free : \A f \in free : e <= f
         IN  [Recorded(k, "open", d) EXCEPT !.fds[d] = ControlTerminal]

\* write(fd, buf, count): the line reaches the file the descriptor names,
\* unless the descriptor is closed or the kernel reports an error.
sys_write(k, fd, line, outcome) ==
    IF k.fds[fd] = Closed \/ outcome = "error" THEN Recorded(k, "write", Failed)
    ELSE IF k.fds[fd] = ControlTerminal
    THEN [Recorded(k, "write", 1) EXCEPT !.tty = Append(@, line)]
    ELSE [Recorded(k, "write", 1) EXCEPT !.file = Append(@, line)]

\* close(fd)
sys_close(k, fd) ==
    IF k.fds[fd] = Closed THEN Recorded(k, "close", Failed)
    ELSE [Recorded(k, "close", 0) EXCEPT !.fds[fd] = Closed]

\* reopen_stdout: system call 2 of x86-64 is open; system call 56 of AArch64
\* is openat, which here gets the path pointer as its directory descriptor
\* and the address 1 as its path, and fails.  The result is dropped.
reopen_stdout(a, k, w) ==
    CASE a = "x86_64" -> sys_open(k, w)
      [] a = "aarch64" -> Recorded(k, "openat", Failed)
      [] OTHER -> k

\* syscall_print: one write to descriptor 1; the result is dropped.
syscall_print(a, k, line, outcome) ==
    IF a \in {"aarch64", "x86_64"}
    THEN sys_write(k, file_descriptor, line, outcome)
    ELSE k

\* close_stdout: close(1); the result is dropped.
close_stdout(a, k) ==
    IF a \in {"aarch64", "x86_64"} THEN sys_close(k, file_descriptor) ELSE k

VARIABLES
    arch,                  \* target architecture of the build
    STDC_LIB_EXT1,         \* whether the build defines __STDC_LIB_EXT1__
    threads,               \* the threads of the process
    world,                 \* what the application calls, what libc answers
    affinity,              \* cores each thread may be scheduled on
    layout,                \* placement of the two counter arrays in memory
    process,               \* "running", "crashed" (fatal signal) or "exited"
    initialized,           \* static int initialized
    libsee_apis,           \* static real_apis libsee_apis
    libsee_thread_cycles,  \* static thread_local_counters [LIBSEE_MAX_THREADS]
    libsee_thread_calls,   \* static thread_local_counters [LIBSEE_MAX_THREADS]
    tsc,                   \* the hardware cycle counter
    pc,                    \* where each thread is inside its wrapper
    frame,                 \* the wrapper's locals, per thread
    hist,                  \* history of the process (observations only)
    fin,                   \* libsee_finalize: its position, locals and output
    kernel                 \* the descriptor table and what the files received

vars == <<arch, STDC_LIB_EXT1, threads, world, affinity, layout, process,
          initialized, libsee_apis, libsee_thread_cycles, libsee_thread_calls,
          tsc, pc, frame, hist, fin, kernel>>

config == <<arch, STDC_LIB_EXT1, threads, world, affinity, layout>>

ZeroBank == [i \in Indexes |-> 0]

NoFrame ==
    [wrapper |-> None, args |-> None, cpu_index |-> None,
     cycle_count_start |-> None, cycle_count_end |-> None,
     cycle_count |-> None, loaded |-> None, result |-> None,
     real_calls |-> <<>>, real_result |-> None, returned |-> None,
     start_core |-> None, core |-> None, stack |-> <<>>,
     nested_cycles |-> 0]

\* libsee_finalize has not been entered.
NotStarted ==
    [pc |-> "loaded", entered |-> 0, before |-> None,
     cycles_across_threads |-> None,
     named_stats |-> <<>>, sorted |-> <<>>, pending |-> <<>>, output |-> <<>>]

InitCommon ==
    /\ process = "running"
    /\ initialized = 0
    /\ libsee_apis = [s \in Symbols |-> NULL]
    /\ libsee_thread_cycles = [b \in Banks |-> ZeroBank]
    /\ libsee_thread_calls = [b \in Banks |-> ZeroBank]
    /\ pc = [t \in Threads |-> "idle"]
    /\ frame = [t \in Threads |-> NoFrame]
    /\ hist = [started |-> 0,
               init_runs |-> 0,
               init_complete |-> 0,
               raced |-> FALSE,
               aliased |-> FALSE,
               assigned |-> {},
               stray |-> 0,
               done |-> [c \in CoreIds |-> [w \in Wrappers |-> 0]]]
    /\ fin = NotStarted

\* A process with several threads, each free to run on any core, built for
\* x86-64 against a libc without Annex K, the two counter arrays placed in
\* the order of their definitions.  The application calls strcpy_s and
\* strlen; every real call takes one tick of the cycle counter.
Init ==
    /\ InitCommon
    /\ arch = "x86_64"
    /\ STDC_LIB_EXT1 = FALSE
    /\ tsc = 0
    /\ threads = Threads
    /\ world = [calls |-> {<<"strcpy_s", 0>>, <<"strlen", 1>>},
                rets |-> {1}, ticks |-> {1}, tty |-> TRUE, writes |-> {"ok"}, missing |-> {}]
    /\ kernel = NewKernel(Stdio(Closed, Closed))
    /\ affinity = [t \in Threads |-> CoreIds]
    /\ layout = "cycles_calls"

(***************************************************************************)
(* The pieces of the wrapper macros (libsee_return, libsee_noreturn,       *)
(* libsee_assign) that compute a value.                                    *)
(***************************************************************************)
\* A test of the flag that sends every call into libsee_initialize.
NeedsInitializeAlways(flag) == TRUE

\* `if (__builtin_expect(initialized == 0, 0))`
NeedsInitialize(flag) == flag = 0

\* A wrapper that hands the real implementation a constant instead of its
\* own parameter.
ForwardedArgsClobbered(a) == 0

\* libsee_apis.function_name(__VA_ARGS__): the arguments handed to the real
\* implementation are the wrapper's own parameters.
ForwardedArgs(a) == a

\* What the exported function gives back to its caller: `return _result;`
\* in libsee_return, `return result;` after libsee_assign, nothing after
\* libsee_noreturn.
ReturnedValue(macro, result) ==
    IF macro = "libsee_noreturn" THEN Void ELSE result

\* A difference that records nothing when the counter wrapped.
ElapsedUnlessWrapped(end, start) == IF end >= start THEN end - start ELSE 0

\* size_t cycle_count = _cycle_count_end - _cycle_count_start;
Elapsed(end, start) == (end - start) % SizeMod

\* libsee_thread_cycles[_cpu_index].named.function_name += cycle_count;
AddCycles(old, cycle_count) == (old + cycle_count) % SizeMod

\* libsee_thread_calls[_cpu_index].named.function_name++;
Increment(old) == (old + 1) % SizeMod

\* The names libsee_initialize assigns a slot for.
ResolvedNames(ext1) == IF ext1 THEN Symbols ELSE Symbols \ AnnexK

\* The object the lvalue array[idx] designates.  An index below
\* LIBSEE_MAX_THREADS is a bank of the array; a larger one is past its end:
\* a bank of the array placed directly after it, or memory of neither array.
Locate(lay, array, idx) ==
    IF idx < LIBSEE_MAX_THREADS
    THEN [array |-> array, bank |-> idx]
    ELSE IF /\ idx < 2 * LIBSEE_MAX_THREADS
            /\ \/ lay = "cycles_calls" /\ array = "cycles"
               \/ lay = "calls_cycles" /\ array = "calls"
         THEN [array |-> IF array = "cycles" THEN "calls" ELSE "cycles",
               bank |-> idx - LIBSEE_MAX_THREADS]
         ELSE [array |-> Outside, bank |-> idx]

InFlight == {"call", "end", "add_cycles", "store_cycles", "inc_calls",
             "store_calls"}
Initializing == {"init_zero", "init_resolve", "init_resolve_late", "init_flag"}

Running(t) == process = "running" /\ t \in threads

\* The counter at a located bank, and the two arrays after a write to it.
ReadCounter(loc, i) ==
    IF loc.array = "cycles" THEN libsee_thread_cycles[loc.bank][i]
    ELSE libsee_thread_calls[loc.bank][i]

WriteCounter(array, loc, i, value) ==
    LET old == IF array = "cycles" THEN libsee_thread_cycles
               ELSE libsee_thread_calls
    IN  IF loc.array = array THEN [old EXCEPT ![loc.bank][i] = value] ELSE old

(***************************************************************************)
(* One wrapper call, statement by statement.                               *)
(***************************************************************************)
\* The application calls the exported function `w` with argument `a`.
Call(t) ==
    /\ Running(t)
    /\ pc[t] = "idle"
    /\ hist.started < MaxCalls
    /\ t = MainThread => fin.pc = "loaded"
    /\ \E c \in world.calls :
          frame' = [frame EXCEPT ![t] = [NoFrame EXCEPT !.wrapper = c[1],
                                                        !.args = c[2]]]
    /\ pc' = [pc EXCEPT ![t] = "init_if_not"]
    /\ hist' = [hist EXCEPT !.started = @ + 1]
    /\ UNCHANGED <<config, process, initialized, libsee_apis,
                   libsee_thread_cycles, libsee_thread_calls, tsc,
                   fin, kernel>>

\* libsee_initialize_if_not: the test of the flag.
libsee_initialize_if_not(t) ==
    /\ Running(t)
    /\ pc[t] = "init_if_not"
    /\ IF NeedsInitialize(initialized)
       THEN /\ pc' = [pc EXCEPT ![t] = "init_zero"]
            /\ hist' = [hist EXCEPT
                  !.init_runs = @ + 1,
                  !.raced = @ \/ \E u \in Threads \ {t} : pc[u] \in Initializing]
       ELSE /\ pc' = [pc EXCEPT ![t] = "probe"]
            /\ hist' = hist
    /\ UNCHANGED <<config, process, initialized, libsee_apis,
                   libsee_thread_cycles, libsee_thread_calls, tsc, frame,
                   fin, kernel>>

\* libsee_initialize, first part: every counter of every bank is set to 0.
libsee_initialize_zero(t) ==
    /\ Running(t)
    /\ pc[t] = "init_zero"
    /\ libsee_thread_cycles' = [b \in Banks |-> ZeroBank]
    /\ libsee_thread_calls' = [b \in Banks |-> ZeroBank]
    /\ pc' = [pc EXCEPT ![t] = "init_resolve"]
    /\ UNCHANGED <<config, process, initialized, libsee_apis, tsc, frame,
                   hist, fin, kernel>>

\* `initialized = 1;` reaching memory ahead of the stores to the slots: the
\* flag is a plain int and nothing orders the two for another thread.
libsee_initialize_done_early(t) ==
    /\ Running(t)
    /\ pc[t] = "init_resolve"
    /\ initialized' = 1
    /\ pc' = [pc EXCEPT ![t] = "init_resolve_late"]
    /\ UNCHANGED <<config, process, libsee_apis, libsee_thread_cycles,
                   libsee_thread_calls, tsc, frame, hist, fin, kernel>>

\* libsee_initialize, second part: one dlsym per slot it assigns.
libsee_initialize_resolve(t) ==
    /\ Running(t)
    /\ pc[t] \in {"init_resolve", "init_resolve_late"}
    /\ libsee_apis' = [s \in Symbols |->
          IF s \in ResolvedNames(STDC_LIB_EXT1) THEN Lookup(world, s)
          ELSE libsee_apis[s]]
    /\ hist' = [hist EXCEPT
          !.assigned = @ \cup ResolvedNames(STDC_LIB_EXT1),
          !.init_complete = IF pc[t] = "init_resolve" THEN @ ELSE @ + 1]
    /\ pc' = [pc EXCEPT ![t] =
          IF pc[t] = "init_resolve" THEN "init_flag" ELSE "probe"]
    /\ UNCHANGED <<config, process, initialized, libsee_thread_cycles,
                   libsee_thread_calls, tsc, frame, fin, kernel>>

\* libsee_initialize_if_not: `initialized = 1;`
libsee_initialize_done(t) ==
    /\ Running(t)
    /\ pc[t] = "init_flag"
    /\ initialized' = 1
    /\ hist' = [hist EXCEPT !.init_complete = @ + 1]
    /\ pc' = [pc EXCEPT ![t] = "probe"]
    /\ UNCHANGED <<config, process, libsee_apis, libsee_thread_cycles,
                   libsee_thread_calls, tsc, frame, fin, kernel>>

\* _cpu_index = libsee_get_cpu_index();
\* _cycle_count_start = libsee_get_cpu_cycle();
Probe(t) ==
    /\ Running(t)
    /\ pc[t] = "probe"
    /\ \E hw \in affinity[t] :
          LET idx == libsee_get_cpu_index(arch, hw) IN
          /\ frame' = [frame EXCEPT
                ![t].cpu_index = idx,
                ![t].cycle_count_start = libsee_get_cpu_cycle(arch, tsc),
                ![t].start_core = hw,
                ![t].core = hw]
          /\ hist' = [hist EXCEPT
                !.aliased = @ \/ \E u \in Threads \ {t} :
                               /\ pc[u] \in InFlight
                               /\ frame[u].cpu_index = idx]
    /\ pc' = [pc EXCEPT ![t] = "call"]
    /\ UNCHANGED <<config, process, initialized, libsee_apis,
                   libsee_thread_cycles, libsee_thread_calls, tsc,
                   fin, kernel>>

\* libsee_apis.function_name(__VA_ARGS__) with a resolved slot: the real
\* implementation runs, takes some cycles and returns a value of its own
\* choice (nothing, for a void function).
CallReal(t) ==
    /\ Running(t)
    /\ pc[t] = "call"
    /\ LET w == frame[t].wrapper
           slot == libsee_apis[function_name(w)]
       IN  /\ slot # NULL
           /\ \E r \in world.rets, d \in world.ticks :
                 /\ frame' = [frame EXCEPT
                       ![t].real_calls =
                           Append(@, <<slot, ForwardedArgs(frame[t].args)>>),
                       ![t].real_result =
                           IF WrapperMacro(w) = "libsee_noreturn" THEN Void
                           ELSE r,
                       ![t].result =
                           IF WrapperMacro(w) = "libsee_noreturn" THEN None
                           ELSE r]
                 /\ tsc' = (tsc + d) % SizeMod
    /\ pc' = [pc EXCEPT ![t] = "end"]
    /\ UNCHANGED <<config, process, initialized, libsee_apis,
                   libsee_thread_cycles, libsee_thread_calls, hist,
                   fin, kernel>>

\* libsee_apis.function_name(__VA_ARGS__) with a null slot: a call through a
\* null function pointer; the process is killed by the fault.
CallNull(t) ==
    /\ Running(t)
    /\ pc[t] = "call"
    /\ libsee_apis[function_name(frame[t].wrapper)] = NULL
    /\ process' = "crashed"
    /\ UNCHANGED <<config, initialized, libsee_apis, libsee_thread_cycles,
                   libsee_thread_calls, tsc, pc, frame, hist, fin, kernel>>

\* A wrapper that counts the call before the real implementation is back.
CountedBeforeReturn(t) ==
    /\ Running(t)
    /\ pc[t] = "call"
    /\ libsee_apis[function_name(frame[t].wrapper)] # NULL
    /\ frame[t].cpu_index \in Banks
    /\ libsee_thread_calls' = [libsee_thread_calls EXCEPT
          ![frame[t].cpu_index][Field(function_name(frame[t].wrapper))] =
              Increment(@)]
    /\ frame' = [frame EXCEPT ![t].real_calls =
          Append(@, <<libsee_apis[function_name(frame[t].wrapper)],
                      ForwardedArgs(frame[t].args)>>)]
    /\ pc' = [pc EXCEPT ![t] = "hung"]
    /\ UNCHANGED <<config, process, initialized, libsee_apis,
                   libsee_thread_cycles, tsc, hist, fin, kernel>>

\* libsee_apis.function_name(__VA_ARGS__) with a resolved slot, the real
\* implementation never coming back: a read that blocks for good, a qsort
\* whose comparison never ends.  The thread stays inside the call.
RealNeverReturns(t) ==
    /\ Running(t)
    /\ pc[t] = "call"
    /\ libsee_apis[function_name(frame[t].wrapper)] # NULL
    /\ frame' = [frame EXCEPT ![t].real_calls =
          Append(@, <<libsee_apis[function_name(frame[t].wrapper)],
                      ForwardedArgs(frame[t].args)>>)]
    /\ pc' = [pc EXCEPT ![t] = "hung"]
    /\ UNCHANGED <<config, process, initialized, libsee_apis,
                   libsee_thread_cycles, libsee_thread_calls, tsc, hist,
                   fin, kernel>>

\* A wrapper that reads the core index again once the real call is back.
MigrateAndProbeAgain(t) ==
    /\ Running(t)
    /\ pc[t] = "call"
    /\ \E hw \in affinity[t] \ {frame[t].core} :
          frame' = [frame EXCEPT ![t].core = hw,
                                 ![t].cpu_index = libsee_get_cpu_index(arch, hw)]
    /\ UNCHANGED <<config, process, initialized, libsee_apis,
                   libsee_thread_cycles, libsee_thread_calls, tsc, pc, hist,
                   fin, kernel>>

\* The scheduler moves the thread to another core of its affinity mask while
\* the wrapper is between its start mark and the return of the real call;
\* _cpu_index, a local read at the start mark, keeps its value.
Migrate(t) ==
    /\ Running(t)
    /\ pc[t] = "call"
    /\ \E hw \in affinity[t] \ {frame[t].core} :
          frame' = [frame EXCEPT ![t].core = hw]
    /\ UNCHANGED <<config, process, initialized, libsee_apis,
                   libsee_thread_cycles, libsee_thread_calls, tsc, pc, hist,
                   fin, kernel>>

\* _cycle_count_end = libsee_get_cpu_cycle();
\* size_t cycle_count = _cycle_count_end - _cycle_count_start;
ReadEnd(t) ==
    /\ Running(t)
    /\ pc[t] = "end"
    /\ LET end == libsee_get_cpu_cycle(arch, tsc) IN
       frame' = [frame EXCEPT
          ![t].cycle_count_end = end,
          ![t].cycle_count = Elapsed(end, frame[t].cycle_count_start)]
    /\ pc' = [pc EXCEPT ![t] = "add_cycles"]
    /\ UNCHANGED <<config, process, initialized, libsee_apis,
                   libsee_thread_cycles, libsee_thread_calls, tsc, hist,
                   fin, kernel>>

\* libsee_thread_cycles[_cpu_index].named.function_name += cycle_count;
\* the read of the old value.
LoadCycles(t) ==
    /\ Running(t)
    /\ pc[t] = "add_cycles"
    /\ LET loc == Locate(layout, "cycles", frame[t].cpu_index) IN
       /\ loc.array # "outside"
       /\ frame' = [frame EXCEPT ![t].loaded =
             ReadCounter(loc, Field(function_name(frame[t].wrapper)))]
    /\ pc' = [pc EXCEPT ![t] = "store_cycles"]
    /\ UNCHANGED <<config, process, initialized, libsee_apis,
                   libsee_thread_cycles, libsee_thread_calls, tsc, hist,
                   fin, kernel>>

\* ... and the write of the sum.
StoreCycles(t) ==
    /\ Running(t)
    /\ pc[t] = "store_cycles"
    /\ LET loc == Locate(layout, "cycles", frame[t].cpu_index)
           i == Field(function_name(frame[t].wrapper))
           sum == AddCycles(frame[t].loaded, frame[t].cycle_count)
       IN  /\ libsee_thread_cycles' = WriteCounter("cycles", loc, i, sum)
           /\ libsee_thread_calls' = WriteCounter("calls", loc, i, sum)
    /\ pc' = [pc EXCEPT ![t] = "inc_calls"]
    /\ UNCHANGED <<config, process, initialized, libsee_apis, tsc, frame,
                   hist, fin, kernel>>

\* libsee_thread_calls[_cpu_index].named.function_name++; the read.
LoadCalls(t) ==
    /\ Running(t)
    /\ pc[t] = "inc_calls"
    /\ LET loc == Locate(layout, "calls", frame[t].cpu_index) IN
       /\ loc.array # "outside"
       /\ frame' = [frame EXCEPT ![t].loaded =
             ReadCounter(loc, Field(function_name(frame[t].wrapper)))]
    /\ pc' = [pc EXCEPT ![t] = "store_calls"]
    /\ UNCHANGED <<config, process, initialized, libsee_apis,
                   libsee_thread_cycles, libsee_thread_calls, tsc, hist,
                   fin, kernel>>

\* An increment that is one indivisible read-modify-write of the counter.
AtomicStoreCalls(t) ==
    /\ Running(t)
    /\ pc[t] = "store_calls"
    /\ LET loc == Locate(layout, "calls", frame[t].cpu_index)
           i == Field(function_name(frame[t].wrapper))
           next == Increment(ReadCounter(loc, i))
       IN  /\ libsee_thread_cycles' = WriteCounter("cycles", loc, i, next)
           /\ libsee_thread_calls' = WriteCounter("calls", loc, i, next)
    /\ pc' = [pc EXCEPT ![t] = "return"]
    /\ UNCHANGED <<config, process, initialized, libsee_apis, tsc, frame,
                   hist, fin, kernel>>

\* ... and the write.
StoreCalls(t) ==
    /\ Running(t)
    /\ pc[t] = "store_calls"
    /\ LET loc == Locate(layout, "calls", frame[t].cpu_index)
           i == Field(function_name(frame[t].wrapper))
           next == Increment(frame[t].loaded)
       IN  /\ libsee_thread_cycles' = WriteCounter("cycles", loc, i, next)
           /\ libsee_thread_calls' = WriteCounter("calls", loc, i, next)
    /\ pc' = [pc EXCEPT ![t] = "return"]
    /\ UNCHANGED <<config, process, initialized, libsee_apis, tsc, frame,
                   hist, fin, kernel>>

\* Either update with a _cpu_index whose bank lies in neither array: the
\* address is unmapped and the process is killed, or the update lands in
\* memory that belongs to neither array.
OutOfBounds(t) ==
    /\ Running(t)
    /\ \/ /\ pc[t] = "add_cycles"
          /\ Locate(layout, "cycles", frame[t].cpu_index).array = "outside"
       \/ /\ pc[t] = "inc_calls"
          /\ Locate(layout, "calls", frame[t].cpu_index).array = "outside"
    /\ \E outcome \in {"fault", "stray"} :
          IF outcome = "fault"
          THEN /\ process' = "crashed"
               /\ UNCHANGED <<pc, hist>>
          ELSE /\ process' = process
               /\ pc' = [pc EXCEPT ![t] =
                     IF pc[t] = "add_cycles" THEN "inc_calls" ELSE "return"]
               /\ hist' = [hist EXCEPT !.stray = @ + 1]
    /\ UNCHANGED <<config, initialized, libsee_apis, libsee_thread_cycles,
                   libsee_thread_calls, tsc, frame, fin, kernel>>

\* The exported function returns to the application.
Return(t) ==
    /\ Running(t)
    /\ pc[t] = "return"
    /\ frame' = [frame EXCEPT ![t].returned =
          ReturnedValue(WrapperMacro(frame[t].wrapper), frame[t].result)]
    /\ hist' = [hist EXCEPT
          !.done[frame[t].cpu_index][frame[t].wrapper] = @ + 1]
    /\ pc' = [pc EXCEPT ![t] = "returned"]
    /\ UNCHANGED <<config, process, initialized, libsee_apis,
                   libsee_thread_cycles, libsee_thread_calls, tsc,
                   fin, kernel>>

\* The application goes on; the wrapper's locals are gone.
Resume(t) ==
    /\ Running(t)
    /\ pc[t] = "returned"
    /\ frame[t].stack = <<>>
    /\ frame' = [frame EXCEPT ![t] = NoFrame]
    /\ pc' = [pc EXCEPT ![t] = "idle"]
    /\ UNCHANGED <<config, process, initialized, libsee_apis,
                   libsee_thread_cycles, libsee_thread_calls, tsc, hist,
                   fin, kernel>>

\* The covered functions that code running inside the wrapper of thread t
\* calls back: the real implementation of the wrapped symbol where the call
\* has gone through a resolved slot, dlsym where libsee_initialize is at its
\* lookups.
CalledBack(t) ==
    IF pc[t] = "call" /\ libsee_apis[function_name(frame[t].wrapper)] # NULL
    THEN {<<n[2], n[3]>> :
             n \in {m \in world.nested : m[1] = function_name(frame[t].wrapper)}}
    ELSE IF pc[t] = "init_resolve" THEN world.lookup_calls
    ELSE {}

\* A covered wrapper is entered on a thread that is already inside one: the
\* locals of the wrapper below stay on the stack, the new invocation has
\* locals of its own and starts at libsee_initialize_if_not.
NestedCall(t) ==
    /\ Running(t)
    /\ hist.started < MaxCalls + MaxNesting
    /\ Len(frame[t].stack) < MaxNesting
    /\ \E c \in CalledBack(t) :
          frame' = [frame EXCEPT ![t] =
             [NoFrame EXCEPT
                 !.wrapper = c[1],
                 !.args = c[2],
                 !.stack = Append(frame[t].stack,
                                  [pc |-> pc[t],
                                   frame |-> [frame[t] EXCEPT !.stack = <<>>]])]]
    /\ pc' = [pc EXCEPT ![t] = "init_if_not"]
    /\ hist' = [hist EXCEPT !.started = @ + 1]
    /\ UNCHANGED <<config, process, initialized, libsee_apis,
                   libsee_thread_cycles, libsee_thread_calls, tsc,
                   fin, kernel>>

\* The nested invocation returns into the code that called it; the wrapper
\* below goes on where it was, with its own locals.  nested_cycles is an
\* observation: the cycles measured by the invocations nested in the real
\* call of this one.
NestedResume(t) ==
    /\ Running(t)
    /\ pc[t] = "returned"
    /\ frame[t].stack # <<>>
    /\ LET below == frame[t].stack[Len(frame[t].stack)]
       IN  /\ frame' = [frame EXCEPT ![t] =
                 [below.frame EXCEPT
                     !.stack = SubSeq(frame[t].stack, 1,
                                      Len(frame[t].stack) - 1),
                     !.nested_cycles =
                         IF below.pc = "call"
                         THEN (@ + frame[t].cycle_count) % SizeMod ELSE @]]
           /\ pc' = [pc EXCEPT ![t] = below.pc]
    /\ UNCHANGED <<config, process, initialized, libsee_apis,
                   libsee_thread_cycles, libsee_thread_calls, tsc, hist,
                   fin, kernel>>

(***************************************************************************)
(* The number formatting of the report.  Text is a sequence of characters. *)
(***************************************************************************)

\* (temp % 10) + '0'
DigitChar(d) == <<"0", "1", "2", "3", "4", "5", "6", "7", "8", "9">>[d + 1]

\* A size_t at its full width of 64 bits is held as three limbs of seven
\* decimal digits, the most significant first.
SizeBase == 10 ^ 7
Size(n) == <<0, n \div SizeBase, n % SizeBase>>
SIZE_MAX == <<184467, 4407370, 9551615>>

\* temp > 0, temp % 10 and temp / 10 on such a number.
SizePositive(temp) == \E k \in 1 .. Len(temp) : temp[k] > 0
SizeModTen(temp) == temp[Len(temp)] % 10
RECURSIVE LongDivTen(_, _, _)
LongDivTen(temp, k, carry) ==
    IF k > Len(temp) THEN <<>>
    ELSE LET current == carry * SizeBase + temp[k]
         IN  <<current \div 10>> \o LongDivTen(temp, k + 1, current % 10)
SizeDivTen(temp) == LongDivTen(temp, 1, 0)

\* while (temp > 0) { temp /= 10; digits++; }
RECURSIVE CountDigits(_)
CountDigits(temp) ==
    IF SizePositive(temp) THEN 1 + CountDigits(SizeDivTen(temp)) ELSE 0

\* A filling that puts the separator on the right of the last digit too.
RECURSIVE FillDigitsSeparatorLast(_, _, _, _)
FillDigitsSeparatorLast(temp, i, digits, thousands_separator) ==
    IF i >= digits THEN <<>>
    ELSE FillDigitsSeparatorLast(SizeDivTen(temp), i + 1, digits,
                                 thousands_separator)
         \o <<DigitChar(SizeModTen(temp))>>
         \o (IF i % 3 = 0 THEN <<thousands_separator>> ELSE <<>>)

\* The loop of libsee_print_size that fills the buffer from its end: the
\* digit i, counted from the right, has the separator on its right whenever
\* i > 0 and i % 3 = 0.
RECURSIVE FillDigits(_, _, _, _)
FillDigits(temp, i, digits, thousands_separator) ==
    IF i >= digits THEN <<>>
    ELSE FillDigits(SizeDivTen(temp), i + 1, digits, thousands_separator)
         \o <<DigitChar(SizeModTen(temp))>>
         \o (IF i > 0 /\ i % 3 = 0 THEN <<thousands_separator>> ELSE <<>>)

\* The text libsee_print_size leaves in the buffer, before the NUL; its
\* length is the value returned.
libsee_print_size(number, thousands_separator) ==
    IF ~SizePositive(number) THEN <<"0">>
    ELSE FillDigits(number, 0, CountDigits(number), thousands_separator)

\* A double that is finite and not negative is held as its integer part ip
\* and its binary fraction fb, a sequence of FractionLimbs limbs of LimbBits
\* bits each, the most significant first.  A double has DBL_MANT_DIG
\* significant bits; the arithmetic below rounds to nearest, ties to even.
LimbBase == 2 ^ LimbBits
FractionWidth == LimbBits * FractionLimbs

\* The bit of weight 2^-i of a fraction.
FractionBit(fb, i) ==
    (fb[((i - 1) \div LimbBits) + 1]
        \div (2 ^ (LimbBits - 1 - ((i - 1) % LimbBits)))) % 2

BitLength(n) == CHOOSE k \in 0 .. 31 : n < 2 ^ k /\ (k = 0 \/ n >= 2 ^ (k - 1))

\* The bits of weight below 2^-n are cleared.
Truncate(fb, n) ==
    [k \in 1 .. FractionLimbs |->
        LET keep == n - (k - 1) * LimbBits IN
        IF keep >= LimbBits THEN fb[k]
        ELSE IF keep <= 0 THEN 0
        ELSE fb[k] - (fb[k] % (2 ^ (LimbBits - keep)))]

\* amount is added to limb k; the carry runs towards the integer part.
RECURSIVE AddToLimb(_, _, _)
AddToLimb(x, k, amount) ==
    IF amount = 0 THEN x
    ELSE IF k = 0 THEN [x EXCEPT !.ip = @ + amount]
    ELSE LET v == x.fb[k] + amount
         IN  AddToLimb([x EXCEPT !.fb[k] = v % LimbBase], k - 1, v \div LimbBase)

\* x, followed by further non-zero bits when inexact, rounded to a double.
RoundDouble(x, inexact) ==
    LET ones == {i \in 1 .. FractionWidth : FractionBit(x.fb, i) = 1}
        lead == IF ones = {} THEN FractionWidth
                ELSE (CHOOSE i \in ones : \A j \in ones : i <= j) - 1
        n == IF x.ip > 0 THEN DBL_MANT_DIG - BitLength(x.ip)
             ELSE lead + DBL_MANT_DIG
    IN  IF n >= FractionWidth THEN x
        ELSE LET half == FractionBit(x.fb, n + 1) = 1
                 sticky == inexact \/ \E i \in ones : i > n + 1
                 odd == IF n = 0 THEN x.ip % 2 = 1
                        ELSE FractionBit(x.fb, n) = 1
                 kept == [ip |-> x.ip, fb |-> Truncate(x.fb, n)]
             IN  IF half /\ (sticky \/ odd)
                 THEN IF n = 0 THEN AddToLimb(kept, 0, 1)
                      ELSE AddToLimb(kept, ((n - 1) \div LimbBits) + 1,
                                     2 ^ (LimbBits - 1 - ((n - 1) % LimbBits)))
                 ELSE kept

\* The first k limbs of the fraction of r / b (r < b), by long division.
RECURSIVE LongDivision(_, _, _)
LongDivision(r, b, k) ==
    IF k = 0 THEN [fb |-> <<>>, r |-> r]
    ELSE LET rest == LongDivision((r * LimbBase) % b, b, k - 1)
         IN  [fb |-> <<(r * LimbBase) \div b>> \o rest.fb, r |-> rest.r]

\* a / b for two doubles that hold the integers a and b, b > 0.
DoubleDivide(a, b) ==
    LET q == LongDivision(a % b, b, FractionLimbs)
    IN  RoundDouble([ip |-> a \div b, fb |-> q.fb], q.r # 0)

\* The exact product of a fraction and 10, from its last limb.
RECURSIVE TimesTen(_, _, _)
TimesTen(fb, k, carry) ==
    IF k = 0 THEN [fb |-> fb, carry |-> carry]
    ELSE LET v == 10 * fb[k] + carry
         IN  TimesTen([fb EXCEPT ![k] = v % LimbBase], k - 1, v \div LimbBase)

\* fractional_part *= 10;
DoubleTimesTen(x) ==
    LET p == TimesTen(x.fb, FractionLimbs, 0)
    IN  RoundDouble([ip |-> 10 * x.ip + p.carry, fb |-> p.fb], FALSE)

\* The loop of libsee_print_double over the decimal points:
\* fractional_part *= 10; digit = (int)(fractional_part) % 10;
RECURSIVE FractionDigits(_, _)
FractionDigits(fractional_part, decimal_points) ==
    IF decimal_points = 0 THEN <<>>
    ELSE LET shifted == DoubleTimesTen(fractional_part)
         IN  <<DigitChar(shifted.ip % 10)>>
             \o FractionDigits(shifted, decimal_points - 1)

libsee_print_double(number, thousands_separator, decimal_points) ==
    LET integer_part == number.ip
        fractional_part == [ip |-> 0, fb |-> number.fb]
    IN  libsee_print_size(Size(integer_part), thousands_separator)
        \o <<".">>
        \o FractionDigits(fractional_part, decimal_points)

(***************************************************************************)
(* One line of the table (the body of the printing loop of                 *)
(* libsee_finalize).  stat_line is a sequence of characters; a position of *)
(* the C buffer is one more than its index in C.                           *)
(***************************************************************************)
\* The characters of the string literals in the initializer of named_stats.
function_name_characters ==
    [strcpy |-> <<"s", "t", "r", "c", "p", "y">>,
     strcpy_s |-> <<"s", "t", "r", "c", "p", "y", "_", "s">>,
     strncpy |-> <<"s", "t", "r", "n", "c", "p", "y">>,
     strncpy_s |-> <<"s", "t", "r", "n", "c", "p", "y", "_", "s">>,
     strcat |-> <<"s", "t", "r", "c", "a", "t">>,
     strcat_s |-> <<"s", "t", "r", "c", "a", "t", "_", "s">>,
     strncat |-> <<"s", "t", "r", "n", "c", "a", "t">>,
     strncat_s |-> <<"s", "t", "r", "n", "c", "a", "t", "_", "s">>,
     strxfrm |-> <<"s", "t", "r", "x", "f", "r", "m">>,
     strlen |-> <<"s", "t", "r", "l", "e", "n">>,
     strnlen_s |-> <<"s", "t", "r", "n", "l", "e", "n", "_", "s">>,
     strcmp |-> <<"s", "t", "r", "c", "m", "p">>,
     strncmp |-> <<"s", "t", "r", "n", "c", "m", "p">>,
     strcoll |-> <<"s", "t", "r", "c", "o", "l", "l">>,
     strchr |-> <<"s", "t", "r", "c", "h", "r">>,
     strrchr |-> <<"s", "t", "r", "r", "c", "h", "r">>,
     strspn |-> <<"s", "t", "r", "s", "p", "n">>,
     strcspn |-> <<"s", "t", "r", "c", "s", "p", "n">>,
     strpbrk |-> <<"s", "t", "r", "p", "b", "r", "k">>,
     strstr |-> <<"s", "t", "r", "s", "t", "r">>,
     strtok |-> <<"s", "t", "r", "t", "o", "k">>,
     strtok_s |-> <<"s", "t", "r", "t", "o", "k", "_", "s">>,
     memchr |-> <<"m", "e", "m", "c", "h", "r">>,
     memcmp |-> <<"m", "e", "m", "c", "m", "p">>,
     memset |-> <<"m", "e", "m", "s", "e", "t">>,
     memset_s |-> <<"m", "e", "m", "s", "e", "t", "_", "s">>,
     memcpy |-> <<"m", "e", "m", "c", "p", "y">>,
     memcpy_s |-> <<"m", "e", "m", "c", "p", "y", "_", "s">>,
     memmove |-> <<"m", "e", "m", "m", "o", "v", "e">>,
     memmove_s |-> <<"m", "e", "m", "m", "o", "v", "e", "_", "s">>,
     strerror |-> <<"s", "t", "r", "e", "r", "r", "o", "r">>,
     strerror_s |-> <<"s", "t", "r", "e", "r", "r", "o", "r", "_", "s">>,
     memmem |-> <<"m", "e", "m", "m", "e", "m">>,
     memrchr |-> <<"m", "e", "m", "r", "c", "h", "r">>,
     malloc |-> <<"m", "a", "l", "l", "o", "c">>,
     calloc |-> <<"c", "a", "l", "l", "o", "c">>,
     realloc |-> <<"r", "e", "a", "l", "l", "o", "c">>,
     free |-> <<"f", "r", "e", "e">>,
     aligned_alloc |-> <<"a", "l", "i", "g", "n", "e", "d", "_", "a", "l",
            "l", "o", "c">>,
     qsort |-> <<"q", "s", "o", "r", "t">>,
     qsort_s |-> <<"q", "s", "o", "r", "t", "_", "s">>,
     bsearch |-> <<"b", "s", "e", "a", "r", "c", "h">>,
     bsearch_s |-> <<"b", "s", "e", "a", "r", "c", "h", "_", "s">>,
     srand |-> <<"s", "r", "a", "n", "d">>,
     rand |-> <<"r", "a", "n", "d">>,
     fopen |-> <<"f", "o", "p", "e", "n">>,
     freopen |-> <<"f", "r", "e", "o", "p", "e", "n">>,
     fclose |-> <<"f", "c", "l", "o", "s", "e">>,
     fflush |-> <<"f", "f", "l", "u", "s", "h">>,
     setbuf |-> <<"s", "e", "t", "b", "u", "f">>,
     setvbuf |-> <<"s", "e", "t", "v", "b", "u", "f">>,
     fread |-> <<"f", "r", "e", "a", "d">>,
     fwrite |-> <<"f", "w", "r", "i", "t", "e">>,
     fseek |-> <<"f", "s", "e", "e", "k">>,
     ftell |-> <<"f", "t", "e", "l", "l">>,
     fsetpos |-> <<"f", "s", "e", "t", "p", "o", "s">>,
     fgetpos |-> <<"f", "g", "e", "t", "p", "o", "s">>,
     rewind |-> <<"r", "e", "w", "i", "n", "d">>,
     clearerr |-> <<"c", "l", "e", "a", "r", "e", "r", "r">>,
     feof |-> <<"f", "e", "o", "f">>,
     ferror |-> <<"f", "e", "r", "r", "o", "r">>,
     perror |-> <<"p", "e", "r", "r", "o", "r">>,
     scanf |-> <<"s", "c", "a", "n", "f">>,
     fscanf |-> <<"f", "s", "c", "a", "n", "f">>,
     sscanf |-> <<"s", "s", "c", "a", "n", "f">>,
     vscanf |-> <<"v", "s", "c", "a", "n", "f">>,
     vfscanf |-> <<"v", "f", "s", "c", "a", "n", "f">>,
     vsscanf |-> <<"v", "s", "s", "c", "a", "n", "f">>,
     printf |-> <<"p", "r", "i", "n", "t", "f">>,
     fprintf |-> <<"f", "p", "r", "i", "n", "t", "f">>,
     sprintf |-> <<"s", "p", "r", "i", "n", "t", "f">>,
     snprintf |-> <<"s", "n", "p", "r", "i", "n", "t", "f">>,
     vprintf |-> <<"v", "p", "r", "i", "n", "t", "f">>,
     vfprintf |-> <<"v", "f", "p", "r", "i", "n", "t", "f">>,
     vsprintf |-> <<"v", "s", "p", "r", "i", "n", "t", "f">>,
     vsnprintf |-> <<"v", "s", "n", "p", "r", "i", "n", "t", "f">>,
     difftime |-> <<"d", "i", "f", "f", "t", "i", "m", "e">>,
     time |-> <<"t", "i", "m", "e">>,
     clock |-> <<"c", "l", "o", "c", "k">>,
     timespec_get |-> <<"t", "i", "m", "e", "s", "p", "e", "c", "_", "g",
            "e", "t">>,
     timespec_getres |-> <<"t", "i", "m", "e", "s", "p", "e", "c", "_",
            "g", "e", "t", "r", "e", "s">>,
     asctime |-> <<"a", "s", "c", "t", "i", "m", "e">>,
     asctime_s |-> <<"a", "s", "c", "t", "i", "m", "e", "_", "s">>,
     ctime |-> <<"c", "t", "i", "m", "e">>,
     ctime_s |-> <<"c", "t", "i", "m", "e", "_", "s">>,
     strftime |-> <<"s", "t", "r", "f", "t", "i", "m", "e">>,
     wcsftime |-> <<"w", "c", "s", "f", "t", "i", "m", "e">>,
     gmtime |-> <<"g", "m", "t", "i", "m", "e">>,
     gmtime_r |-> <<"g", "m", "t", "i", "m", "e", "_", "r">>,
     gmtime_s |-> <<"g", "m", "t", "i", "m", "e", "_", "s">>,
     localtime |-> <<"l", "o", "c", "a", "l", "t", "i", "m", "e">>,
     localtime_r |-> <<"l", "o", "c", "a", "l", "t", "i", "m", "e", "_",
            "r">>,
     localtime_s |-> <<"l", "o", "c", "a", "l", "t", "i", "m", "e", "_",
            "s">>,
     mktime |-> <<"m", "k", "t", "i", "m", "e">>]

NUL == "NUL"
Spaces(n) == [k \in 1 .. n |-> " "]

\* The buffer after `characters` are stored from buffer[index] on.
Stored(buffer, index, characters) ==
    SubSeq(buffer, 1, index)
    \o characters
    \o SubSeq(buffer, index + Len(characters) + 1, Len(buffer))

\* libsee_pad_buffer: spaces from current_length up to target_length, a NUL
\* where the loop stopped, and target_length as the value returned.
libsee_pad_buffer(buffer, current_length, target_length) ==
    LET reached == IF current_length < target_length THEN target_length
                   ELSE current_length
    IN  [buffer |-> Stored(buffer, current_length,
                           Spaces(reached - current_length) \o <<NUL>>),
         length |-> target_length]

\* The buffer after libsee_print_size(number, thousands_separator, buffer + at):
\* the text, then `buffer[index--] = '\0'` at its end.
PrintSizeInto(buffer, at, number, thousands_separator) ==
    Stored(buffer, at, libsee_print_size(number, thousands_separator) \o <<NUL>>)

\* Columns that put the share at the end of the array.
column_widths_wide == <<120, 120, 15, 15>>

\* size_t column_widths[] = {20, 40, 15, 15};
column_widths == <<20, 40, 15, 15>>

\* char stat_line[256];
stat_line_size == 256

\* The body of the loop after the test of total_cycles: the line and its
\* length as handed to syscall_print.
StatLine(label, total_cycles, total_calls, percent_cycles) ==
    LET name == function_name_characters[label]
        named == Stored(<<>>, 0, name \o <<",">>)
        first == libsee_pad_buffer(named, Len(name) + 1, column_widths[1])
        cycles == libsee_print_size(total_cycles, " ")
        with_cycles ==
            Stored(PrintSizeInto(first.buffer, first.length, total_cycles, " "),
                   first.length + Len(cycles), <<",">>)
        second == libsee_pad_buffer(with_cycles,
                                    first.length + Len(cycles) + 1,
                                    column_widths[1] + column_widths[2])
        calls == libsee_print_size(total_calls, " ")
        with_calls ==
            Stored(PrintSizeInto(second.buffer, second.length, total_calls, " "),
                   second.length + Len(calls), <<",">>)
        third == libsee_pad_buffer(with_calls,
                                   second.length + Len(calls) + 1,
                                   column_widths[1] + column_widths[2]
                                       + column_widths[3])
        share == libsee_print_double(percent_cycles, " ", 2)
        with_share ==
            Stored(Stored(third.buffer, third.length, share \o <<NUL>>),
                   third.length + Len(share), <<"\n">>)
        stat_line_length == third.length + Len(share) + 1
    IN  [stat_line |-> Stored(with_share, stat_line_length, <<NUL>>),
         stat_line_length |-> stat_line_length]

(***************************************************************************)
(* libsee_finalize, run by the destructor libsee_finalize_gcc when the     *)
(* library is unloaded.                                                    *)
(***************************************************************************)
RECURSIVE SumSeq(_)
SumSeq(q) == IF q = <<>> THEN 0 ELSE Head(q) + SumSeq(Tail(q))

\* for (i ...) for (t ...) cycles_across_threads += libsee_thread_cycles[t].indexed[i];
GrandTotal(cycles) ==
    SumSeq([k \in 1 .. (counters_per_thread * LIBSEE_MAX_THREADS) |->
              cycles[(k - 1) % LIBSEE_MAX_THREADS]
                    [((k - 1) \div LIBSEE_MAX_THREADS) + 1]]) % SizeMod

\* A reduction that leaves bank 0 as it finds it.
AggregateNothing(banks, t) == banks

\* A reduction that empties the banks it has added.
RECURSIVE AggregateAndClear(_, _)
AggregateAndClear(banks, t) ==
    IF t >= LIBSEE_MAX_THREADS THEN banks
    ELSE AggregateAndClear(
             [banks EXCEPT
                 ![0] = [j \in Indexes |-> (banks[0][j] + banks[t][j]) % SizeMod],
                 ![t] = [j \in Indexes |-> 0]],
             t + 1)

\* for (t = 1; t < LIBSEE_MAX_THREADS; t++) for (j ...)
\*     bank[0].indexed[j] += bank[t].indexed[j];
RECURSIVE Aggregate(_, _)
Aggregate(banks, t) ==
    IF t >= LIBSEE_MAX_THREADS THEN banks
    ELSE Aggregate([banks EXCEPT ![0] =
                       [j \in Indexes |-> (banks[0][j] + banks[t][j]) % SizeMod]],
                   t + 1)

\* named_stats[i].total_calls = ...; named_stats[i].total_cycles = ...;
AssignTotals(cycles, calls) ==
    [i \in Indexes |->
        [function_name |-> named_stats_labels[i],
         total_cycles |-> cycles[0][i],
         total_calls |-> calls[0][i]]]

\* A comparison that also exchanges two entries of equal total_cycles.
NotAbove(left, right) == left.total_cycles <= right.total_cycles

\* `if (named_stats[j].total_cycles < named_stats[j + 1].total_cycles)`
Below(left, right) == left.total_cycles < right.total_cycles

\* An inner loop that exchanges two entries without the temporary: the
\* entry on the left is overwritten before it is copied to the right.
RECURSIVE BubbleInnerWithoutTemp(_, _, _)
BubbleInnerWithoutTemp(a, i, j) ==
    IF j - 1 >= Len(a) - i - 1 THEN a
    ELSE BubbleInnerWithoutTemp(IF Below(a[j], a[j + 1])
                                THEN [a EXCEPT ![j] = a[j + 1]]
                                ELSE a,
                                i, j + 1)

\* The bubble sort of named_stats, descending by total_cycles.
RECURSIVE BubbleInner(_, _, _)
BubbleInner(a, i, j) ==
    IF j - 1 >= Len(a) - i - 1 THEN a
    ELSE BubbleInner(IF Below(a[j], a[j + 1])
                     THEN [a EXCEPT ![j] = a[j + 1], ![j + 1] = a[j]]
                     ELSE a,
                     i, j + 1)

RECURSIVE BubbleOuter(_, _)
BubbleOuter(a, i) ==
    IF i >= Len(a) - 1 THEN a
    ELSE BubbleOuter(BubbleInner(a, i, 1), i + 1)

BubbleSort(a) == BubbleOuter(a, 0)

\* A loop that prints every entry.
SkipNone(stat) == FALSE

\* `if (total_cycles == 0) { continue; }`
SkipRow(stat) == stat.total_cycles = 0

\* What libsee_print_double may leave for (double)total_cycles * 100.0 / 0.0,
\* an infinity: the conversions (size_t)number and (int)fractional_part are
\* undefined for it.  A build gives 0 or the largest size_t for the first
\* and the smallest or the largest int for the second.
UndefinedShares ==
    {libsee_print_size(Size(0), " ") \o <<".", "(", "(">>,
     libsee_print_size(Size(SizeMod - 1), " ") \o <<".", "(", "(">>,
     libsee_print_size(Size(SizeMod - 1), " ") \o <<".", "7", "7">>}

\* double percent_cycles = (double)total_cycles * 100.0 / (double)cycles_across_threads;
\* and the text libsee_print_double(percent_cycles, ' ', 2, ...) leaves.
\* total_cycles * 100 is exact in a double at the widths of the model.
ShareText(total_cycles, cycles_across_threads, undefined) ==
    IF cycles_across_threads = 0 THEN undefined
    ELSE libsee_print_double(
             DoubleDivide(total_cycles * 100, cycles_across_threads), " ", 2)

\* The loop that prints the sorted stats: one line per entry not skipped.
RECURSIVE StatLines(_, _, _)
StatLines(stats, cycles_across_threads, undefined) ==
    IF stats = <<>> THEN <<>>
    ELSE (IF SkipRow(Head(stats)) THEN <<>>
          ELSE <<[line |-> "row",
                  function_name |-> Head(stats).function_name,
                  total_cycles |-> Head(stats).total_cycles,
                  total_calls |-> Head(stats).total_calls,
                  share |-> ShareText(Head(stats).total_cycles,
                                      cycles_across_threads, undefined)]>>)
         \o StatLines(Tail(stats), cycles_across_threads, undefined)

RuleLine == [line |-> "----------------------------------LIBSEE----------------------------------------"]
HeaderLine == [line |-> "function,           cycles,                                 calls,         share"]

\* A caller that repeats a write that failed.
RepeatFailedWrite(before, after, pending) ==
    IF Len(after.calls) > Len(before.calls)
       /\ after.calls[Len(after.calls)].ret = Failed
    THEN pending ELSE Tail(pending)

\* What is left to print after a call of syscall_print, whatever it did.
AfterPrint(before, after, pending) == Tail(pending)

\* The destructor starts: reopen_stdout(), then the grand total of cycles.
libsee_finalize_begin ==
    /\ process = "running"
    /\ fin.pc = "loaded"
    /\ pc[MainThread] = "idle"
    /\ kernel' = reopen_stdout(arch, kernel, world)
    /\ fin' = [fin EXCEPT
          !.pc = "reduce",
          !.entered = @ + 1,
          !.before = [cycles |-> libsee_thread_cycles,
                      calls |-> libsee_thread_calls,
                      started |-> hist.started],
          !.cycles_across_threads = GrandTotal(libsee_thread_cycles)]
    /\ UNCHANGED <<config, process, initialized, libsee_apis,
                   libsee_thread_cycles, libsee_thread_calls, tsc, pc, frame,
                   hist>>

\* "Aggregate stats from all threads into the first one."
libsee_finalize_reduce ==
    /\ process = "running"
    /\ fin.pc = "reduce"
    /\ libsee_thread_cycles' = Aggregate(libsee_thread_cycles, 1)
    /\ libsee_thread_calls' = Aggregate(libsee_thread_calls, 1)
    /\ fin' = [fin EXCEPT !.pc = "report"]
    /\ UNCHANGED <<config, process, initialized, libsee_apis, tsc, pc, frame,
                   hist, kernel>>

\* named_stats is filled and sorted; the lines of the table are the rule,
\* the header, one row per entry not skipped, and the rule.
libsee_finalize_report ==
    /\ process = "running"
    /\ fin.pc = "report"
    /\ LET stats == AssignTotals(libsee_thread_cycles, libsee_thread_calls)
           sorted == BubbleSort(stats)
       IN  \E undefined \in UndefinedShares :
              fin' = [fin EXCEPT
                 !.pc = "print",
                 !.named_stats = stats,
                 !.sorted = sorted,
                 !.pending = <<RuleLine, HeaderLine>>
                             \o StatLines(sorted, fin.cycles_across_threads,
                                          undefined)
                             \o <<RuleLine>>]
    /\ UNCHANGED <<config, process, initialized, libsee_apis,
                   libsee_thread_cycles, libsee_thread_calls, tsc, pc, frame,
                   hist, kernel>>

\* One call of syscall_print: the next line of the table is handed to the
\* raw output channel, and the destructor goes on to the line after it.
libsee_finalize_print ==
    /\ process = "running"
    /\ fin.pc = "print"
    /\ fin.pending # <<>>
    /\ \E outcome \in world.writes :
          /\ kernel' = syscall_print(arch, kernel, Head(fin.pending), outcome)
          /\ fin' = [fin EXCEPT
                !.output = Append(@, Head(fin.pending)),
                !.pending = AfterPrint(kernel, kernel', fin.pending)]
    /\ UNCHANGED <<config, process, initialized, libsee_apis,
                   libsee_thread_cycles, libsee_thread_calls, tsc, pc, frame,
                   hist>>

\* A destructor that closes the output ahead of the closing rule.
CloseBeforeLastLine ==
    /\ process = "running"
    /\ fin.pc = "print"
    /\ Len(fin.pending) = 1
    /\ \A k \in 1 .. Len(kernel.calls) : kernel.calls[k].name # "close"
    /\ kernel' = close_stdout(arch, kernel)
    /\ UNCHANGED <<config, process, initialized, libsee_apis,
                   libsee_thread_cycles, libsee_thread_calls, tsc, pc, frame,
                   hist, fin>>

\* close_stdout(); the destructor returns and the process is gone.
libsee_finalize_close ==
    /\ process = "running"
    /\ fin.pc = "print"
    /\ fin.pending = <<>>
    /\ kernel' = close_stdout(arch, kernel)
    /\ fin' = [fin EXCEPT !.pc = "closed"]
    /\ process' = "exited"
    /\ UNCHANGED <<config, initialized, libsee_apis, libsee_thread_cycles,
                   libsee_thread_calls, tsc, pc, frame, hist>>

\* The string literals libsee_finalize hands to syscall_print, as characters,
\* each with the count written next to it in the source.
FinalizingText ==
    <<"F", "i", "n", "a", "l", "i", "z", "i", "n", "g", "\n">>
ReportTitleText ==
    <<"L", "i", "b", "S", "e", "e", " ", "f", "u", "n", "c", "t", "i", "o",
      "n", " ", "u", "s", "a", "g", "e", " ", "r", "e", "p", "o", "r", "t",
      " ", "(", "i", "n", " ", "d", "e", "s", "c", "e", "n", "d", "i", "n",
      "g", " ", "o", "r", "d", "e", "r", " ", "o", "f", " ", "C", "P", "U",
      " ", "c", "y", "c", "l", "e", "s", ")", ":", "\n">>
RuleText ==
    <<"-", "-", "-", "-", "-", "-", "-", "-", "-", "-", "-", "-", "-", "-",
      "-", "-", "-", "-", "-", "-", "-", "-", "-", "-", "-", "-", "-", "-",
      "-", "-", "-", "-", "-", "-", "L", "I", "B", "S", "E", "E", "-", "-",
      "-", "-", "-", "-", "-", "-", "-", "-", "-", "-", "-", "-", "-", "-",
      "-", "-", "-", "-", "-", "-", "-", "-", "-", "-", "-", "-", "-", "-",
      "-", "-", "-", "-", "-", "-", "-", "-", "-", "-", "\n">>
HeaderText ==
    <<"f", "u", "n", "c", "t", "i", "o", "n", ",", " ", " ", " ", " ", " ",
      " ", " ", " ", " ", " ", " ", "c", "y", "c", "l", "e", "s", ",", " ",
      " ", " ", " ", " ", " ", " ", " ", " ", " ", " ", " ", " ", " ", " ",
      " ", " ", " ", " ", " ", " ", " ", " ", " ", " ", " ", " ", " ", " ",
      " ", " ", " ", " ", "c", "a", "l", "l", "s", ",", " ", " ", " ", " ",
      " ", " ", " ", " ", " ", "s", "h", "a", "r", "e", "\n">>
finalize_prints ==
    {[buf |-> FinalizingText, count |-> 11],
     [buf |-> ReportTitleText, count |-> 52],
     [buf |-> RuleText, count |-> 81],
     [buf |-> HeaderText, count |-> 81]}

\* sizeof(#function_name): the characters of the name and the NUL.
SizeofName(label) == Len(function_name_characters[label]) + 1

\* libsee_log(#function_name "-started\n", sizeof(#function_name) + 9)
\* libsee_log(#function_name "-closed\n", sizeof(#function_name) + 8)
StartedText == <<"-", "s", "t", "a", "r", "t", "e", "d", "\n">>
ClosedText == <<"-", "c", "l", "o", "s", "e", "d", "\n">>
libsee_log_started(label) ==
    [buf |-> function_name_characters[label] \o StartedText,
     count |-> SizeofName(label) + 9]
libsee_log_closed(label) ==
    [buf |-> function_name_characters[label] \o ClosedText,
     count |-> SizeofName(label) + 8]

\* The bytes write(fd, buf, count) takes from a string literal: the
\* characters of the literal and its NUL are the object buf points to.
WrittenBytes(buf, count) == SubSeq(buf \o <<NUL>>, 1, count)

\* One call of syscall_print of a build with LIBSEE_LOG_EVERYTHING: the
\* bytes go to descriptor 1.
syscall_print_literal ==
    /\ process = "running"
    /\ fin.pc = "log"
    /\ fin.count <= Len(fin.buf) + 1
    /\ kernel' = syscall_print(arch, kernel,
                               WrittenBytes(fin.buf, fin.count), "ok")
    /\ fin' = [fin EXCEPT !.pc = "logged"]
    /\ UNCHANGED <<config, process, initialized, libsee_apis,
                   libsee_thread_cycles, libsee_thread_calls, tsc, pc, frame,
                   hist>>

\* One pass of the printing loop for an entry that is not skipped: the line
\* is built in stat_line.
libsee_finalize_row ==
    /\ process = "running"
    /\ fin.pc = "row"
    /\ LET built == StatLine(fin.function_name, fin.total_cycles,
                             fin.total_calls, fin.percent_cycles)
       IN  fin' = [fin EXCEPT !.pc = "row_done",
                              !.stat_line = built.stat_line,
                              !.stat_line_length = built.stat_line_length]
    /\ UNCHANGED <<config, process, initialized, libsee_apis,
                   libsee_thread_cycles, libsee_thread_calls, tsc, pc, frame,
                   hist, kernel>>

Next ==
    \/ \E t \in Threads : Call(t)
    \/ \E t \in Threads : libsee_initialize_if_not(t)
    \/ \E t \in Threads : libsee_initialize_zero(t)
    \/ \E t \in Threads : libsee_initialize_done_early(t)
    \/ \E t \in Threads : libsee_initialize_resolve(t)
    \/ \E t \in Threads : libsee_initialize_done(t)
    \/ \E t \in Threads : Probe(t)
    \/ \E t \in Threads : CallReal(t)
    \/ \E t \in Threads : CallNull(t)
    \/ \E t \in Threads : RealNeverReturns(t)
    \/ \E t \in Threads : ReadEnd(t)
    \/ \E t \in Threads : LoadCycles(t)
    \/ \E t \in Threads : StoreCycles(t)
    \/ \E t \in Threads : LoadCalls(t)
    \/ \E t \in Threads : StoreCalls(t)
    \/ \E t \in Threads : OutOfBounds(t)
    \/ \E t \in Threads : Return(t)
    \/ \E t \in Threads : Resume(t)
    \/ libsee_finalize_begin
    \/ libsee_finalize_reduce
    \/ libsee_finalize_report
    \/ libsee_finalize_print
    \/ libsee_finalize_close

Spec == Init /\ [][Next]_vars

\* A process of one thread in which covered functions are called from inside
\* a wrapper: the real vprintf frees a buffer and measures a string, and the
\* lookup of a name calls strlen.
InitNested ==
    /\ InitCommon
    /\ arch = "x86_64"
    /\ STDC_LIB_EXT1 = FALSE
    /\ tsc = 0
    /\ threads = {MainThread}
    /\ \E lookup_calls \in {{}, {<<"strlen", 0>>}} :
          world = [calls |-> {<<"printf", 1>>, <<"strcpy_s", 0>>},
                   rets |-> {1}, ticks |-> {1}, tty |-> TRUE,
                   writes |-> {"ok"}, missing |-> {},
                   nested |-> {<<"vprintf", "free", 0>>,
                               <<"vprintf", "strlen", 0>>},
                   lookup_calls |-> lookup_calls]
    /\ kernel = NewKernel(Stdio(Closed, Closed))
    /\ affinity = [t \in Threads |-> CoreIds]
    /\ layout = "cycles_calls"

NextNested ==
    \/ Next
    \/ \E t \in Threads : NestedCall(t)
    \/ \E t \in Threads : NestedResume(t)

SpecNested == InitNested /\ [][NextNested]_vars

\* A process of one thread in which the name of one covered symbol has no
\* definition after this library, in a build with or without Annex K.
MissingNames == {"strlen", "vprintf", "strcpy_s"}
InitMissing ==
    /\ InitCommon
    /\ arch = "x86_64"
    /\ STDC_LIB_EXT1 \in BOOLEAN
    /\ tsc = 0
    /\ threads = {MainThread}
    /\ \E name \in MissingNames :
          world = [calls |-> {<<"strcpy_s", 0>>, <<"strlen", 1>>, <<"printf", 1>>},
                   rets |-> {1}, ticks |-> {1}, tty |-> TRUE,
                   writes |-> {"ok"}, missing |-> {name}]
    /\ kernel = NewKernel(Stdio(Closed, Closed))
    /\ affinity = [t \in Threads |-> CoreIds]
    /\ layout = "cycles_calls"

SpecMissing == InitMissing /\ [][Next]_vars

\* A process with one thread, pinned to one core, in every build; the
\* application may call every wrapper, a real call takes no tick or one.
InitPinned ==
    /\ InitCommon
    /\ arch \in Archs
    /\ STDC_LIB_EXT1 \in BOOLEAN
    /\ tsc \in {0, SizeMod - 1}
    /\ threads = {MainThread}
    /\ world = [calls |-> Wrappers \X Args, rets |-> RetVals, ticks |-> {0, 1},
                tty |-> TRUE, writes |-> {"ok"}, missing |-> {}]
    /\ kernel = NewKernel(Stdio(ControlTerminal, OtherFile))
    /\ \E c \in CoreIds : affinity = [t \in Threads |-> {c}]
    /\ layout \in Layouts

SpecPinned == InitPinned /\ [][Next]_vars

\* A process with one thread that the scheduler may move between all cores,
\* also while a real call is in progress; builds with a hardware probe.  A
\* real call takes no tick, one, or all but one of a full period of the
\* counter (the same as an end mark one tick behind the start mark).
InitMigrating ==
    /\ InitCommon
    /\ arch \in {"aarch64", "x86_64"}
    /\ STDC_LIB_EXT1 = FALSE
    /\ tsc \in {0, SizeMod - 1}
    /\ threads = {MainThread}
    /\ world = [calls |-> {<<"strcpy_s", 0>>, <<"strlen", 0>>, <<"printf", 1>>},
                rets |-> {1}, ticks |-> {0, 1, SizeMod - 1}, tty |-> TRUE,
                writes |-> {"ok"}, missing |-> {}]
    /\ kernel = NewKernel(Stdio(ControlTerminal, OtherFile))
    /\ affinity = [t \in Threads |-> CoreIds]
    /\ layout \in Layouts

NextMigrating ==
    \/ Next
    \/ \E t \in Threads : Migrate(t)

SpecMigrating == InitMigrating /\ [][NextMigrating]_vars

\* The destructor alone, on counters left by any run of the process: each
\* bank holds, for strlen and for free, a cycle sum of ReportCycles, and bank
\* 0 one for vprintf; a counter of calls is 1 where cycles were recorded.  The
\* report goes to a terminal that open() puts on descriptor 1.  Or else: the
\* counters of one small run, with every build, every state of the
\* descriptors 0 and 1, a terminal present or not, and writes that succeed,
\* fail or do either.
ReportCycles == {0, 1, 3, 122}

ReportBanks(strlen_cycles, free_cycles, vprintf_cycles) ==
    [b \in Banks |->
        [i \in Indexes |->
            CASE i = Field("strlen") -> strlen_cycles[b]
              [] i = Field("free") -> free_cycles[b]
              [] i = Field("vprintf") /\ b = 0 -> vprintf_cycles
              [] OTHER -> 0]]

CallsOf(cycles) ==
    [b \in Banks |-> [i \in Indexes |-> IF cycles[b][i] > 0 THEN 1 ELSE 0]]

InitReport ==
    /\ process = "running"
    /\ initialized = 1
    /\ STDC_LIB_EXT1 = FALSE
    /\ libsee_apis = [s \in Symbols |->
                         IF s \in ResolvedNames(FALSE) THEN dlsym(s) ELSE NULL]
    /\ tsc = 0
    /\ threads = {MainThread}
    /\ affinity = [t \in Threads |-> {0}]
    /\ layout = "cycles_calls"
    /\ pc = [t \in Threads |-> "idle"]
    /\ frame = [t \in Threads |-> NoFrame]
    /\ hist = [started |-> 0, init_runs |-> 1, init_complete |-> 1,
               raced |-> FALSE, aliased |-> FALSE,
               assigned |-> ResolvedNames(FALSE), stray |-> 0,
               done |-> [c \in CoreIds |-> [w \in Wrappers |-> 0]]]
    /\ fin = NotStarted
    /\ \/ /\ arch = "x86_64"
          /\ kernel = NewKernel(Stdio(ControlTerminal, Closed))
          /\ world = [calls |-> {}, rets |-> {}, ticks |-> {}, tty |-> TRUE,
                      writes |-> {"ok"}, missing |-> {}]
          /\ \E strlen_cycles \in [Banks -> ReportCycles],
                free_cycles \in [Banks -> ReportCycles],
                vprintf_cycles \in {0, 3} :
                libsee_thread_cycles =
                    ReportBanks(strlen_cycles, free_cycles, vprintf_cycles)
       \/ /\ arch \in Archs
          /\ \E fds \in StdioAtUnload : kernel = NewKernel(fds)
          /\ \E tty \in BOOLEAN, writes \in {{"ok"}, {"ok", "error"}, {"error"}} :
                world = [calls |-> {}, rets |-> {}, ticks |-> {}, tty |-> tty,
                         writes |-> writes, missing |-> {}]
          /\ libsee_thread_cycles =
                ReportBanks([b \in Banks |-> IF b = 0 THEN 1 ELSE 0],
                            [b \in Banks |-> IF b = 0 THEN 0 ELSE 3], 0)
    /\ libsee_thread_calls = CallsOf(libsee_thread_cycles)

NextReport ==
    \/ libsee_finalize_begin
    \/ libsee_finalize_reduce
    \/ libsee_finalize_report
    \/ libsee_finalize_print
    \/ libsee_finalize_close

SpecReport == InitReport /\ [][NextReport]_vars

\* The printing loop alone, at the full width of size_t: an entry of
\* named_stats with any label of the catalog, totals from one digit to the
\* twenty of SIZE_MAX, and a share as the division leaves it.
FormatSizes ==
    {Size(1), Size(999), Size(1000), Size(1234567), <<0, 9999, 9999999>>,
     <<0, 10000, 0>>, SIZE_MAX}
FormatShares ==
    {DoubleDivide(100, 125), DoubleDivide(300, 125), DoubleDivide(100, 3),
     DoubleDivide(300, 3), DoubleDivide(1000000000, 1)}

InitFormat ==
    /\ process = "running"
    /\ arch = "x86_64"
    /\ initialized = 1
    /\ STDC_LIB_EXT1 = FALSE
    /\ libsee_apis = [s \in Symbols |->
                         IF s \in ResolvedNames(FALSE) THEN dlsym(s) ELSE NULL]
    /\ tsc = 0
    /\ threads = {MainThread}
    /\ affinity = [t \in Threads |-> {0}]
    /\ layout = "cycles_calls"
    /\ pc = [t \in Threads |-> "idle"]
    /\ frame = [t \in Threads |-> NoFrame]
    /\ hist = [started |-> 0, init_runs |-> 1, init_complete |-> 1,
               raced |-> FALSE, aliased |-> FALSE,
               assigned |-> ResolvedNames(FALSE), stray |-> 0,
               done |-> [c \in CoreIds |-> [w \in Wrappers |-> 0]]]
    /\ world = [calls |-> {}, rets |-> {}, ticks |-> {}, tty |-> TRUE,
                writes |-> {"ok"}, missing |-> {}]
    /\ kernel = NewKernel(Stdio(ControlTerminal, Closed))
    /\ libsee_thread_cycles = [b \in Banks |-> ZeroBank]
    /\ libsee_thread_calls = [b \in Banks |-> ZeroBank]
    /\ \E i \in 1 .. indexed_size :
       \E total_cycles \in FormatSizes, total_calls \in FormatSizes \cup {Size(0)} :
       \E percent_cycles \in FormatShares :
          fin = [pc |-> "row",
                 function_name |-> named_stats_initializers[i],
                 total_cycles |-> total_cycles,
                 total_calls |-> total_calls,
                 percent_cycles |-> percent_cycles,
                 stat_line |-> <<>>,
                 stat_line_length |-> 0]

NextFormat == libsee_finalize_row

SpecFormat == InitFormat /\ [][NextFormat]_vars

\* A build with LIBSEE_LOG_EVERYTHING: one call of syscall_print with a
\* string literal, from the two log statements of the wrapper of any symbol
\* of the catalog or from libsee_finalize, writing to a terminal.
InitLog ==
    /\ process = "running"
    /\ arch \in {"aarch64", "x86_64"}
    /\ initialized = 1
    /\ STDC_LIB_EXT1 = FALSE
    /\ libsee_apis = [s \in Symbols |->
                         IF s \in ResolvedNames(FALSE) THEN dlsym(s) ELSE NULL]
    /\ tsc = 0
    /\ threads = {MainThread}
    /\ affinity = [t \in Threads |-> {0}]
    /\ layout = "cycles_calls"
    /\ pc = [t \in Threads |-> "idle"]
    /\ frame = [t \in Threads |-> NoFrame]
    /\ hist = [started |-> 0, init_runs |-> 1, init_complete |-> 1,
               raced |-> FALSE, aliased |-> FALSE,
               assigned |-> ResolvedNames(FALSE), stray |-> 0,
               done |-> [c \in CoreIds |-> [w \in Wrappers |-> 0]]]
    /\ world = [calls |-> {}, rets |-> {}, ticks |-> {}, tty |-> TRUE,
                writes |-> {"ok"}, missing |-> {}]
    /\ kernel = NewKernel(Stdio(ControlTerminal, ControlTerminal))
    /\ libsee_thread_cycles = [b \in Banks |-> ZeroBank]
    /\ libsee_thread_calls = [b \in Banks |-> ZeroBank]
    /\ \E print \in finalize_prints
                    \cup {libsee_log_started(thread_local_counters_named[i]) :
                             i \in 1 .. indexed_size}
                    \cup {libsee_log_closed(thread_local_counters_named[i]) :
                             i \in 1 .. indexed_size} :
          fin = [pc |-> "log", buf |-> print.buf, count |-> print.count]

NextLog == syscall_print_literal

SpecLog == InitLog /\ [][NextLog]_vars

(***************************************************************************)
(* Properties.                                                             *)
(***************************************************************************)
BeforeCall == {"init_if_not", "init_zero", "init_resolve", "init_resolve_late",
               "init_flag", "probe", "call"}
AfterCall == {"end", "add_cycles", "store_cycles", "inc_calls", "store_calls",
              "return", "returned"}

RecordedUnder(c, s) ==
    SumSeq([i \in Indexes |->
              IF function_name(real_apis[i]) = s
              THEN hist.done[c][real_apis[i]] ELSE 0])

\* No wrapper call is under way and the destructor has not started.
Quiescent ==
    /\ process = "running"
    /\ fin.pc = "loaded"
    /\ \A t \in Threads : pc[t] = "idle"

\* C2: Variadic forwarding.  One call of a variadic wrapper (printf) invokes
\* the real explicit-argument-list sibling (vprintf) exactly once, adds one
\* call and the elapsed cycles to the sibling's counters of the caller's
\* core, and adds nothing to the counters of the variadic symbol itself:
\* when the call has returned on core c, bank c exists, counts under the
\* sibling every completed call of either wrapper, and holds 0 calls and 0
\* cycles under the variadic symbol.
VariadicForwarding ==
    \A t \in Threads :
        (pc[t] = "returned" /\ WrapperMacro(frame[t].wrapper) = "libsee_assign") =>
            LET w == frame[t].wrapper
                c == frame[t].cpu_index
                sibling == function_name(w)
            IN  /\ sibling # w
                /\ frame[t].real_calls = << <<dlsym(sibling), frame[t].args>> >>
                /\ c \in Banks
                /\ libsee_thread_calls[c][Field(sibling)] = RecordedUnder(c, sibling)
                /\ libsee_thread_calls[c][Field(w)] = 0
                /\ libsee_thread_cycles[c][Field(w)] = 0

\* C3: Monotonic counting.  For every covered symbol, after K calls of that
\* symbol's wrapper by a single thread that stays on one core, that core's
\* call count for that symbol is exactly K: between calls, every core c and
\* every wrapper w with completed calls on c have a bank c whose count under
\* w is the number of those calls.
MonotonicCounting ==
    Quiescent =>
        \A c \in CoreIds : \A w \in Wrappers :
            hist.done[c][w] > 0 =>
                /\ c \in Banks
                /\ libsee_thread_calls[c][Field(w)] = hist.done[c][w]

NoCallThroughUnassignedSlot ==
    \A t \in Threads :
        pc[t] = "call" =>
            /\ function_name(frame[t].wrapper) \in hist.assigned
            /\ libsee_apis[function_name(frame[t].wrapper)] # NULL

\* C6: after initialization has completed the table is fully populated, in
\* every build configuration: the slot of every covered symbol with an
\* exported wrapper, the `_s` symbols included, has been assigned the lookup
\* of the symbol's own name.
TableFullyPopulated ==
    hist.init_complete > 0 =>
        \A s \in Wrappers :
            /\ function_name(s) \in hist.assigned
            /\ libsee_apis[function_name(s)] = dlsym(function_name(s))

\* C7: Bank index bound.  For every core identifier the hardware probe
\* returns, the index a wrapper uses to address libsee_thread_cycles and
\* libsee_thread_calls is smaller than LIBSEE_MAX_THREADS.
BankIndexBound ==
    \A t \in Threads :
        pc[t] \in InFlight => frame[t].cpu_index < LIBSEE_MAX_THREADS

\* C8: between process start and report generation, under any interleaving
\* of wrapper calls from any threads, the call count of every (core, symbol)
\* pair never decreases: no step taken before the destructor starts lowers a
\* counter of libsee_thread_calls.
CallCountsNeverDecrease ==
    [][(fin.pc = "loaded" /\ fin'.pc = "loaded") =>
          \A b \in Banks : \A i \in Indexes :
              libsee_thread_calls'[b][i] >= libsee_thread_calls[b][i]]_vars

\* C9: when initialization completed before the calls and threads running
\* at the same time obtained pairwise different core indexes, no increment
\* is lost: between calls, each bank's call count for a symbol is the number
\* of calls recorded under that symbol that completed with the bank's core
\* index.
NoLostIncrements ==
    (Quiescent /\ hist.init_runs <= 1 /\ ~hist.aliased) =>
        \A b \in Banks : \A s \in Symbols :
            libsee_thread_calls[b][Field(s)] = RecordedUnder(b, s)

\* The rows of the printed report, and the symbols the totals show as called.
ReportRows == {k \in 1 .. Len(fin.output) : fin.output[k].line = "row"}
CalledSymbols ==
    {fin.named_stats[i].function_name :
        i \in {j \in 1 .. Len(fin.named_stats) :
                  fin.named_stats[j].total_calls # 0}}

\* C10: Report rows.  The report contains exactly one row for each covered
\* symbol whose total call count over all cores is non-zero, and no row for
\* a symbol with zero calls; a symbol that was called but whose summed cycles
\* are zero still gets its row.
OneRowPerCalledSymbol ==
    fin.pc = "closed" =>
        /\ {fin.output[k].function_name : k \in ReportRows} = CalledSymbols
        /\ Cardinality(ReportRows) = Cardinality(CalledSymbols)

\* The rows printed so far, as positions of fin.output, and the place of a
\* symbol in the catalog.
CatalogPosition(name) == CHOOSE i \in Indexes : named_stats_labels[i] = name

\* C11: Report ordering.  Whatever the totals, a row that is emitted before
\* another has at least the other's total cycles, and of two rows with equal
\* total cycles the one whose symbol stands first in the catalog is emitted
\* first (the sort is stable); the emitted rows are the sorted entries whose
\* total cycles are not zero.
ReportOrdering ==
    /\ \A j, k \in ReportRows :
          j < k =>
             /\ fin.output[j].total_cycles >= fin.output[k].total_cycles
             /\ fin.output[j].total_cycles = fin.output[k].total_cycles =>
                   CatalogPosition(fin.output[j].function_name)
                       < CatalogPosition(fin.output[k].function_name)
    /\ \A j, k \in 1 .. Len(fin.sorted) :
          j < k =>
             /\ fin.sorted[j].total_cycles >= fin.sorted[k].total_cycles
             /\ fin.sorted[j].total_cycles = fin.sorted[k].total_cycles =>
                   CatalogPosition(fin.sorted[j].function_name)
                       < CatalogPosition(fin.sorted[k].function_name)

\* The report is out, the sort had to move an entry forward, and the rows
\* hold both a tie and a strict descent.
ReportOrderingWitness ==
    /\ fin.pc = "closed"
    /\ fin.sorted # fin.named_stats
    /\ \E j, k \in ReportRows :
          j < k /\ fin.output[j].total_cycles = fin.output[k].total_cycles
    /\ \E j, k \in ReportRows :
          j < k /\ fin.output[j].total_cycles > fin.output[k].total_cycles

\* The number a text of digits shows, separators and the point left out.
DigitChars == {DigitChar(d) : d \in 0 .. 9}
DigitValue(ch) == CHOOSE d \in 0 .. 9 : DigitChar(d) = ch

RECURSIVE ShownNumber(_)
ShownNumber(text) ==
    IF text = <<>> THEN 0
    ELSE LET n == Len(text)
             rest == ShownNumber(SubSeq(text, 1, n - 1))
         IN  IF text[n] \in DigitChars THEN 10 * rest + DigitValue(text[n])
             ELSE rest

\* Digits in groups, a point, and exactly two digits after it.
TwoDecimalPlaces(text) ==
    /\ Len(text) >= 4
    /\ text[Len(text) - 2] = "."
    /\ text[Len(text) - 1] \in DigitChars
    /\ text[Len(text)] \in DigitChars
    /\ \A k \in 1 .. (Len(text) - 3) : text[k] \in DigitChars \cup {" "}

\* C12: Percentage share.  The last column of every row shows, with exactly
\* two digits after the decimal point, 100 * (total cycles of the row's
\* symbol) / (grand total of cycles): the hundredths shown are those of the
\* quotient, cut or rounded to the nearest.  The grand total is the one the
\* destructor computed; a row printed against a grand total that wrapped to
\* zero is left out of the statement.
PercentageShare ==
    \A k \in ReportRows :
        LET row == fin.output[k]
            total == row.total_cycles
            grand == fin.cycles_across_threads
        IN  grand # 0 =>
               /\ TwoDecimalPlaces(row.share)
               /\ ShownNumber(row.share) \in
                      {(10000 * total) \div grand,
                       (2 * 10000 * total + grand) \div (2 * grand)}

\* The example of the specification at a quarter and three quarters of the
\* grand total: the rows show 75.00 and 25.00.
ShareExample ==
    (/\ fin.pc = "closed"
     /\ {fin.output[k].total_cycles : k \in ReportRows} = {1, 3}
     /\ Cardinality(ReportRows) = 2) =>
        {fin.output[k].share : k \in ReportRows}
            = {<<"7", "5", ".", "0", "0">>, <<"2", "5", ".", "0", "0">>}

\* The sum of a symbol's counter over the banks, taken from the last bank
\* down to the first, and the ways of placing the banks' contents.
RECURSIVE SumDown(_, _, _)
SumDown(banks, i, b) ==
    IF b < 0 THEN 0 ELSE (banks[b][i] + SumDown(banks, i, b - 1)) % SizeMod

BankPermutations == {f \in [Banks -> Banks] : \A b \in Banks : \E a \in Banks : f[a] = b}

IssuedCalls(names) ==
    {k \in 1 .. Len(kernel.calls) : kernel.calls[k].name \in names}

HasRawChannel == arch \in {"aarch64", "x86_64"}

\* C16: Output failure is tolerated.  Whatever the open, write and close
\* system calls return, libsee_finalize hands every line of the table to
\* syscall_print exactly once and in order, syscall_print issues one write
\* for it and none again after a failure, and libsee_finalize then calls
\* close_stdout and returns: one open before the writes, one write for each
\* line, one close as the last call.
OutputFailureTolerated ==
    /\ fin.pc \in {"print", "closed"} =>
          \E undefined \in UndefinedShares :
              fin.output \o fin.pending
                  = <<RuleLine, HeaderLine>>
                    \o StatLines(fin.sorted, fin.cycles_across_threads, undefined)
                    \o <<RuleLine>>
    /\ Cardinality(IssuedCalls({"write"}))
          = IF HasRawChannel THEN Len(fin.output) ELSE 0
    /\ Cardinality(IssuedCalls({"open", "openat"}))
          = IF HasRawChannel /\ fin.pc # "loaded" THEN 1 ELSE 0
    /\ Cardinality(IssuedCalls({"close"}))
          = IF HasRawChannel /\ fin.pc = "closed" THEN 1 ELSE 0
    /\ fin.pc = "closed" =>
          /\ fin.pending = <<>>
          /\ process = "exited"
          /\ HasRawChannel =>
                kernel.calls[Len(kernel.calls)].name = "close"

\* libsee_finalize has returned although the open, every write and the close
\* failed; a row was among the lines.
EveryCallFailedWitness ==
    /\ fin.pc = "closed"
    /\ ReportRows # {}
    /\ Len(kernel.calls) = Len(fin.output) + 2
    /\ \A k \in 1 .. Len(kernel.calls) : kernel.calls[k].ret = Failed

\* reopen_stdout's open call returned a descriptor.
TerminalOpened ==
    \E k \in IssuedCalls({"open"}) : kernel.calls[k].ret # Failed

\* C17: After reopen_stdout has opened the control terminal, standard output
\* refers to it: until close_stdout, descriptor 1 names the terminal, and
\* every line syscall_print has written went to the terminal and to no other
\* file (every line handed to it, where no write fails), whatever the state
\* of the descriptors 0 and 1 at unload.
StandardOutputIsTerminal ==
    TerminalOpened =>
        /\ fin.pc \in {"reduce", "report", "print"} =>
              kernel.fds[file_descriptor] = ControlTerminal
        /\ kernel.file = <<>>
        /\ world.writes = {"ok"} => kernel.tty = fin.output

Recording == {"add_cycles", "store_cycles", "inc_calls", "store_calls"}

\* C19: Effect and frame of recording.  One completed wrapper call with core
\* index c for symbol s increases the call count of (c, s) by exactly one and
\* the cycle sum of (c, s) by exactly the elapsed cycles, and leaves the
\* counters of every other (core, symbol) pair, the table libsee_apis and the
\* flag `initialized` unchanged: every step a thread takes through its
\* recording statements addresses an existing bank c, the store of the first
\* update changes nothing but libsee_thread_cycles[c].s, by cycle_count, the
\* store of the second nothing but libsee_thread_calls[c].s, by one, and the
\* loads change no counter at all.
RecordingEffectAndFrame ==
    [][\A t \in Threads :
          (pc[t] \in Recording /\ pc'[t] # pc[t]) =>
              LET c == frame[t].cpu_index
                  i == Field(function_name(frame[t].wrapper))
              IN  /\ c \in Banks
                  /\ libsee_apis' = libsee_apis
                  /\ initialized' = initialized
                  /\ libsee_thread_cycles' =
                        IF pc[t] = "store_cycles"
                        THEN [libsee_thread_cycles EXCEPT
                                 ![c][i] = (@ + frame[t].cycle_count) % SizeMod]
                        ELSE libsee_thread_cycles
                  /\ libsee_thread_calls' =
                        IF pc[t] = "store_calls"
                        THEN [libsee_thread_calls EXCEPT
                                 ![c][i] = (@ + 1) % SizeMod]
                        ELSE libsee_thread_calls]_vars

\* The same for the cores whose identifier is a bank index.
RecordingEffectAndFrameInRange ==
    [][\A t \in Threads :
          (pc[t] \in Recording /\ pc'[t] # pc[t]
              /\ frame[t].cpu_index \in Banks) =>
              LET c == frame[t].cpu_index
                  i == Field(function_name(frame[t].wrapper))
              IN  /\ libsee_apis' = libsee_apis
                  /\ initialized' = initialized
                  /\ libsee_thread_cycles' =
                        IF pc[t] = "store_cycles"
                        THEN [libsee_thread_cycles EXCEPT
                                 ![c][i] = (@ + frame[t].cycle_count) % SizeMod]
                        ELSE libsee_thread_cycles
                  /\ libsee_thread_calls' =
                        IF pc[t] = "store_calls"
                        THEN [libsee_thread_calls EXCEPT
                                 ![c][i] = (@ + 1) % SizeMod]
                        ELSE libsee_thread_calls]_vars

\* The statements of a wrapper in the order of the macro text, and the steps
\* from one to the next.
ProtocolOrder ==
    <<"init_if_not", "init_zero", "init_resolve", "init_resolve_late",
      "init_flag", "probe", "call", "end", "add_cycles", "store_cycles",
      "inc_calls", "store_calls", "return", "returned">>
Position(p) == CHOOSE k \in 1 .. Len(ProtocolOrder) : ProtocolOrder[k] = p
Ensuring == {"init_if_not", "init_zero", "init_resolve", "init_resolve_late",
             "init_flag"}

\* A local of the wrapper that has not been assigned yet.
Unset(v) == ToString(v) = ToString(None)

\* What a thread at each statement has behind it.
ProtocolStage(t) ==
    LET f == frame[t] IN
    /\ pc[t] \in Ensuring \cup {"probe"} =>
          /\ Unset(f.cpu_index)
          /\ Unset(f.cycle_count_start)
    /\ pc[t] \in {"probe", "call", "hung"} \cup AfterCall =>
          /\ initialized = 1
          /\ hist.init_runs >= 1
    /\ pc[t] \in Ensuring \cup {"probe", "call"} => f.real_calls = <<>>
    /\ pc[t] \in {"call", "hung", "end"} =>
          /\ ~Unset(f.cpu_index)
          /\ ~Unset(f.cycle_count_start)
          /\ Unset(f.cycle_count_end)
          /\ Unset(f.cycle_count)
          /\ Unset(f.loaded)
    /\ pc[t] \in {"hung"} \cup AfterCall => Len(f.real_calls) = 1
    /\ pc[t] \in AfterCall \ {"end"} =>
          /\ ~Unset(f.cycle_count_end)
          /\ f.cycle_count = Elapsed(f.cycle_count_end, f.cycle_count_start)
    /\ pc[t] \notin {"idle", "returned"} => Unset(f.returned)

\* C20: Wrapper protocol order.  In every wrapper call the steps occur in
\* the order ensure-initialized, read core id, read start cycle, call the
\* real implementation, read end cycle, update the counters, return: a
\* thread moves through the statements only forwards, and at each one has
\* done what comes before it and nothing of what comes after.  The counters
\* are updated only after the real implementation has returned: before the
\* destructor runs, a step that changes a counter is the store of an update,
\* taken by a thread whose real call has returned (or the zeroing loop of
\* libsee_initialize, taken before the real call).  So a call whose real
\* implementation never returns is never counted: its thread takes no
\* further step.
WrapperProtocolOrder ==
    /\ [](\A t \in Threads : ProtocolStage(t))
    /\ [][\A t \in Threads :
            /\ pc[t] = "hung" => pc'[t] = "hung" /\ frame'[t] = frame[t]
            /\ (pc'[t] # pc[t] /\ pc[t] \notin {"idle", "returned"}) =>
                  \/ pc[t] = "call" /\ pc'[t] = "hung"
                  \/ /\ pc'[t] # "hung"
                     /\ Position(pc'[t]) > Position(pc[t])
            /\ (pc'[t] # pc[t] /\ pc[t] = "idle") => pc'[t] = "init_if_not"
            /\ (pc'[t] # pc[t] /\ pc[t] = "returned") => pc'[t] = "idle"
            /\ (pc'[t] # pc[t] /\ pc'[t] = "probe") => pc[t] \in Ensuring
            /\ (pc'[t] # pc[t] /\ pc'[t] = "call") => pc[t] = "probe"
            /\ (pc'[t] # pc[t] /\ pc'[t] = "end") => pc[t] = "call"
            /\ (pc'[t] # pc[t] /\ pc'[t] = "add_cycles") => pc[t] = "end"
            /\ (pc'[t] # pc[t] /\ pc'[t] = "inc_calls") =>
                  pc[t] \in {"add_cycles", "store_cycles"}
            /\ (pc'[t] # pc[t] /\ pc'[t] = "return") =>
                  pc[t] \in {"inc_calls", "store_calls"}
            /\ (pc'[t] # pc[t] /\ pc'[t] = "returned") => pc[t] = "return"]_vars
    /\ [][(/\ fin.pc = "loaded"
           /\ fin'.pc = "loaded"
           /\ \/ libsee_thread_cycles' # libsee_thread_cycles
              \/ libsee_thread_calls' # libsee_thread_calls) =>
              \E t \in Threads :
                  /\ pc'[t] # pc[t]
                  /\ \/ pc[t] = "init_zero"
                     \/ /\ pc[t] \in {"store_cycles", "store_calls"}
                        /\ Len(frame[t].real_calls) = 1
                        /\ ~Unset(frame[t].cycle_count_end)]_vars

\* One call has returned and been counted, and the thread is now inside a
\* real implementation that never returns: the counters hold the one call.
NeverReturningCallWitness ==
    \E t \in Threads :
        /\ pc[t] = "hung"
        /\ frame[t].cpu_index \in Banks
        /\ hist.started = 2
        /\ hist.done[frame[t].cpu_index][frame[t].wrapper] = 1
        /\ libsee_thread_calls[frame[t].cpu_index]
                              [Field(function_name(frame[t].wrapper))] = 1

\* The thread has been moved to another core since it read its start mark.
MigratedDuringCall(t) ==
    /\ pc[t] \in {"call", "hung"} \cup AfterCall
    /\ frame[t].core # frame[t].start_core

IndexesInRange ==
    \A c \in CoreIds \ Banks : \A w \in Wrappers : hist.done[c][w] = 0

\* C22: Lost updates under aliasing.  The increment of a call count is a
\* load and a later store of the loaded value plus one.  When two threads
\* with the same core index run a wrapper of the same symbol at the same
\* time, a thread that stores after the other has stored in between writes
\* its own stale value plus one and so discards the other's increment (a
\* counter moves under a thread between its load and its store only through
\* such a thread, a second run of libsee_initialize, the reduction of the
\* destructor, or an update with an index past the arrays); nothing ever adds a call that was not made, so after such an interleaving
\* the call count of the pair is smaller than the number of completed calls.
LostUpdatesUnderAliasing ==
    /\ [][\A t \in Threads :
            (/\ pc[t] = "store_calls"
             /\ pc'[t] # pc[t]
             /\ frame[t].cpu_index \in Banks) =>
                LET c == frame[t].cpu_index
                    i == Field(function_name(frame[t].wrapper))
                IN  /\ libsee_thread_calls'[c][i] = Increment(frame[t].loaded)
                    /\ frame[t].loaded < libsee_thread_calls[c][i] =>
                          /\ libsee_thread_calls'[c][i] <=
                                libsee_thread_calls[c][i]
                          /\ \/ hist.aliased
                             \/ hist.init_runs > 1
                             \/ ~IndexesInRange
                             \/ fin.pc # "loaded"
                             \/ \E u \in Threads \ {t} :
                                   /\ pc[u] \in InFlight \cup {"return"}
                                   /\ frame[u].cpu_index \notin Banks]_vars
    /\ []((Quiescent /\ hist.init_runs <= 1 /\ IndexesInRange) =>
            \A b \in Banks : \A s \in Symbols :
                libsee_thread_calls[b][Field(s)] <= RecordedUnder(b, s))

\* After one initialization, two threads with core index 0 have each
\* completed a call of strlen at the same time, and bank 0 counts one.
LostUpdateWitness ==
    /\ Quiescent
    /\ hist.init_runs = 1
    /\ hist.aliased
    /\ hist.done[0]["strlen"] = 2
    /\ libsee_thread_calls[0][Field("strlen")] = 1

\* C23: Teardown is single-threaded.  While libsee_finalize reads and
\* reduces the counter banks (from its grand total to the assignment of the
\* totals), no wrapper in any other thread executes a counter update: every
\* step taken meanwhile leaves both counter arrays as they are.  So the
\* grand total computed before the reduction and the per-symbol totals
\* computed by it describe the same counter values: the totals of cycles add
\* up to the grand total.
TeardownSingleThreaded ==
    /\ [][(fin.pc \in {"reduce", "report"} /\ fin'.pc = fin.pc) =>
            /\ libsee_thread_cycles' = libsee_thread_cycles
            /\ libsee_thread_calls' = libsee_thread_calls]_vars
    /\ [](fin.pc \in {"print", "closed"} =>
            SumSeq([i \in Indexes |-> fin.named_stats[i].total_cycles])
                % SizeMod = fin.cycles_across_threads)

\* The process was killed at a call through a null slot or at an update with
\* an index past the arrays.
KilledElsewhere ==
    \E t \in Threads :
        \/ /\ pc[t] = "call"
           /\ libsee_apis[function_name(frame[t].wrapper)] = NULL
        \/ /\ pc[t] \in {"add_cycles", "inc_calls"}
           /\ frame[t].cpu_index \notin Banks

\* C24: Elapsed cycles are the unsigned difference of the two cycle reads
\* modulo 2^w (w = SizeBits): end - start when end >= start, and
\* 2^w - start + end when the counter wrapped between the reads.  That value
\* is added to the cycle sum, itself modulo 2^w, without any error or
\* skipped record: the store after the end mark always writes the old sum
\* plus the elapsed value, wrapped or not, and the process is never killed
\* because of a wrap.
ElapsedModulo ==
    /\ [](\A t \in Threads :
            pc[t] \in AfterCall \ {"end"} =>
                LET start == frame[t].cycle_count_start
                    end == frame[t].cycle_count_end
                IN  /\ frame[t].cycle_count \in 0 .. (SizeMod - 1)
                    /\ frame[t].cycle_count =
                          IF end >= start THEN end - start
                          ELSE SizeMod - start + end)
    /\ [](process = "crashed" => KilledElsewhere)
    /\ [][\A t \in Threads :
            (pc[t] = "store_cycles" /\ pc'[t] # pc[t]) =>
                LET loc == Locate(layout, "cycles", frame[t].cpu_index)
                    i == Field(function_name(frame[t].wrapper))
                    sum == (ReadCounter(loc, i) + frame[t].cycle_count)
                               % SizeMod
                IN  /\ pc'[t] = "inc_calls"
                    /\ loc.array = "cycles" =>
                          libsee_thread_cycles'[loc.bank][i] = sum
                    /\ loc.array = "calls" =>
                          libsee_thread_calls'[loc.bank][i] = sum]_vars

\* A second call of strlen has returned with an end mark below its start
\* mark: the elapsed value is all but one of a full period, and the cycle
\* sum of the pair, 1 before, has wrapped to 0.
ElapsedWrapWitness ==
    \E t \in Threads :
        /\ pc[t] = "returned"
        /\ process = "running"
        /\ frame[t].wrapper = "strlen"
        /\ frame[t].cpu_index \in Banks
        /\ frame[t].cycle_count_end < frame[t].cycle_count_start
        /\ frame[t].cycle_count = SizeMod - 1
        /\ hist.done[frame[t].cpu_index]["strlen"] = 2
        /\ libsee_thread_cycles[frame[t].cpu_index][Field("strlen")] = 0
        /\ libsee_thread_calls[frame[t].cpu_index][Field("strlen")] = 2

\* C25: Catalog consistency.  The ordered list of fields of
\* thread_local_counters.named, the ordered list of slots of real_apis and
\* the ordered list of labels in named_stats are the same list of the same
\* length, 94, the size of `indexed`, without a repeated name; so for every
\* position i the counter indexed[i], the table slot i and the report label
\* i denote the same symbol: the totals the report assigns to the entry
\* labelled s are the counters of bank 0 under the field s, and the slot of
\* that name holds nothing but the lookup of s.
CatalogConsistency ==
    /\ Len(thread_local_counters_named) = indexed_size
    /\ Len(real_apis_fields) = indexed_size
    /\ Len(named_stats_initializers) = indexed_size
    /\ \A i \in 1 .. indexed_size :
          /\ thread_local_counters_named[i] = real_apis_fields[i]
          /\ real_apis_fields[i] = named_stats_initializers[i]
          /\ \A j \in 1 .. (i - 1) :
                thread_local_counters_named[j] # thread_local_counters_named[i]
    /\ thread_local_counters = SelectSeq(thread_local_counters_named, Kept)
    /\ real_apis = SelectSeq(real_apis_fields, Kept)
    /\ named_stats_labels = SelectSeq(named_stats_initializers, Kept)
    /\ fin.pc \in {"print", "closed"} =>
          \A i \in Indexes :
              LET s == fin.named_stats[i].function_name IN
              /\ s = thread_local_counters[i]
              /\ s = real_apis[i]
              /\ fin.named_stats[i].total_cycles =
                    libsee_thread_cycles[0][Field(s)]
              /\ fin.named_stats[i].total_calls =
                    libsee_thread_calls[0][Field(s)]
              /\ libsee_apis[real_apis[i]] \in {NULL, dlsym(s)}

\* The report is out; the entry at the position of the field `free` is
\* labelled free and holds the 3 cycles and the 1 call recorded for free.
CatalogWitness ==
    /\ fin.pc = "closed"
    /\ fin.named_stats[Field("free")].function_name = "free"
    /\ fin.named_stats[Field("free")].total_cycles = 3
    /\ fin.named_stats[Field("free")].total_calls = 1
    /\ fin.before.cycles[1][Field("free")] = 3
    /\ \E k \in ReportRows : /\ fin.output[k].function_name = "free"
                              /\ fin.output[k].total_cycles = 3

\* The system call that reopens the output in a build, if it has one.
ReopenCall ==
    CASE arch = "x86_64" -> "open"
      [] arch = "aarch64" -> "openat"
      [] OTHER -> None

PrintedLine == SubSeq(fin.stat_line, 1, fin.stat_line_length)
FieldAt(line, column, text) ==
    /\ Len(line) >= column + Len(text)
    /\ SubSeq(line, column + 1, column + Len(text)) = text
BlankBetween(line, from, to) ==
    /\ Len(line) >= to
    /\ \A k \in (from + 1) .. to : line[k] = " "
RowLayout(line, name, cycles, calls, share) ==
    /\ FieldAt(line, 0, name \o <<",">>)
    /\ BlankBetween(line, Len(name) + 1, 20)
    /\ FieldAt(line, 20, cycles \o <<",">>)
    /\ BlankBetween(line, 20 + Len(cycles) + 1, 60)
    /\ FieldAt(line, 60, calls \o <<",">>)
    /\ BlankBetween(line, 60 + Len(calls) + 1, 75)
    /\ FieldAt(line, 75, share \o <<"\n">>)
    /\ Len(line) = 75 + Len(share) + 1
    /\ \A k \in 1 .. (Len(line) - 1) : line[k] # "\n"

\* C27: Fixed columns.  For every symbol of the catalog and every pair of
\* totals in 0 .. 2^64-1 the emitted row holds, in this order, the symbol
\* name, the total cycles, the total calls and the share, each of the first
\* three followed by a comma, the cycles field starting at column 20, the
\* calls field at column 60 and the share field at column 75, every field
\* complete, and the row ends with a single newline.
FixedColumns ==
    fin.pc = "row_done" =>
        RowLayout(PrintedLine,
                  function_name_characters[fin.function_name],
                  libsee_print_size(fin.total_cycles, " "),
                  libsee_print_size(fin.total_calls, " "),
                  libsee_print_double(fin.percent_cycles, " ", 2))

\* The same for totals of calls of at most eleven digits.
FixedColumnsUpToElevenDigits ==
    (fin.pc = "row_done"
        /\ Len(libsee_print_size(fin.total_calls, " ")) < column_widths[3]) =>
        RowLayout(PrintedLine,
                  function_name_characters[fin.function_name],
                  libsee_print_size(fin.total_cycles, " "),
                  libsee_print_size(fin.total_calls, " "),
                  libsee_print_double(fin.percent_cycles, " ", 2))

\* Bank zero after the reduction has run once more on the banks it left.
ReducedAgain == [cycles |-> Aggregate(libsee_thread_cycles, 1)[0],
                 calls |-> Aggregate(libsee_thread_calls, 1)[0]]
BanksAboveZeroEmpty ==
    \A b \in Banks \ {0} : \A j \in Indexes :
        libsee_thread_cycles[b][j] = 0 /\ libsee_thread_calls[b][j] = 0

\* C28: Reduction is idempotent.  On the banks the reduction of the
\* destructor has left, a second run of the same reduction gives the same
\* totals of cycles and of calls in bank zero, for every symbol.
ReductionIdempotent ==
    fin.pc = "report" =>
        /\ ReducedAgain.cycles = libsee_thread_cycles[0]
        /\ ReducedAgain.calls = libsee_thread_calls[0]

\* The same where the first run has found nothing in the banks above zero.
ReductionIdempotentOnEmptyBanks ==
    (fin.pc = "report" /\ BanksAboveZeroEmpty) =>
        /\ ReducedAgain.cycles = libsee_thread_cycles[0]
        /\ ReducedAgain.calls = libsee_thread_calls[0]

\* Reading a text of decimal digits back as a size_t: temp * 10 + digit on
\* a number held in limbs.
RECURSIVE TimesTenPlus(_, _, _)
TimesTenPlus(temp, k, carry) ==
    IF k = 0 THEN <<>>
    ELSE LET current == temp[k] * 10 + carry
         IN  TimesTenPlus(temp, k - 1, current \div SizeBase)
             \o <<current % SizeBase>>
RECURSIVE ParseDigits(_, _)
ParseDigits(text, sofar) ==
    IF text = <<>> THEN sofar
    ELSE ParseDigits(Tail(text),
                     TimesTenPlus(sofar, Len(sofar), DigitValue(Head(text))))
WithoutSeparators(text, thousands_separator) ==
    SelectSeq(text, LAMBDA c : c # thousands_separator)
Separators == {" ", ","}

\* What the claim says of one call libsee_print_size(n, separator, buffer).
PrintSizeContract(n, thousands_separator) ==
    LET buffer == PrintSizeInto(<<>>, 0, n, thousands_separator)
        length == Len(libsee_print_size(n, thousands_separator))
        text == SubSeq(buffer, 1, length)
        digits == Len(WithoutSeparators(text, thousands_separator))
    IN  /\ Len(buffer) = length + 1
        /\ buffer[length + 1] = NUL
        /\ \A k \in 1 .. length :
              IF (length - k) % 4 = 3 THEN text[k] = thousands_separator
              ELSE text[k] \in DigitChars
        /\ digits >= 1
        /\ (text[1] = "0") => (length = 1 /\ ~SizePositive(n))
        /\ length = digits + ((digits - 1) \div 3)
        /\ ~SizePositive(n) => length = 1
        /\ ParseDigits(WithoutSeparators(text, thousands_separator),
                       Size(0)) = n

\* C29: libsee_print_size.  For every number n the destructor has printed
\* and every separator, the buffer holds the decimal digits of n without
\* leading zeros, the separator between the groups of three digits counted
\* from the right, then a NUL; the length returned is
\* digits + (digits - 1) / 3, which is 1 for n = 0; and the text without its
\* separators, read as a decimal number, is n.
PrintSizeGroupsOfThree ==
    fin.pc = "row_done" =>
        \A thousands_separator \in Separators :
            /\ PrintSizeContract(fin.total_cycles, thousands_separator)
            /\ PrintSizeContract(fin.total_calls, thousands_separator)
PrintSizeWitness ==
    /\ fin.pc = "row_done"
    /\ fin.total_cycles = SIZE_MAX
    /\ fin.total_calls = Size(0)
    /\ libsee_print_size(fin.total_cycles, " ")
          = <<"1", "8", " ", "4", "4", "6", " ", "7", "4", "4", " ",
              "0", "7", "3", " ", "7", "0", "9", " ", "5", "5", "1", " ",
              "6", "1", "5">>
    /\ SubSeq(fin.stat_line, column_widths[1] + 1, column_widths[1] + 27)
          = libsee_print_size(fin.total_cycles, " ") \o <<",">>

\* The slots that hold a null pointer, the symbol a wrapper in flight calls
\* through, and the positions of a wrapper past its real call.
NullSlots == {s \in Symbols : libsee_apis[s] = NULL}
CalledThrough(t) == function_name(frame[t].wrapper)
PastRealCall == (InFlight \ {"call"}) \cup {"returned", "hung"}
NullSlotCallIsFatal ==
    /\ [](\A t \in threads :
             (hist.init_complete >= 1 /\ CalledThrough(t) \in world.missing) =>
                 /\ pc[t] \notin PastRealCall
                 /\ Unset(frame[t].result)
                 /\ Unset(frame[t].returned)
                 /\ frame[t].real_calls = <<>>)
    /\ [][\A t \in threads :
             (pc[t] = "call" /\ CalledThrough(t) \in world.missing
                 /\ <<pc[t], frame[t]>>' # <<pc[t], frame[t]>>) =>
                 process' = "crashed"]_vars
    /\ [][(process = "crashed") => UNCHANGED vars]_vars

\* C30: Resolution failure.  When the lookup of one covered symbol finds no
\* definition, a completed initialization has set the flag and left a null
\* pointer in the slot of that symbol and in no other slot; a call of the
\* wrapper of that symbol made afterwards ends with the process killed, and
\* the wrapper never comes back from the call, records it or hands a value
\* to its caller.
ResolutionFailure ==
    /\ [](hist.init_complete >= 1 =>
             (initialized = 1 /\ NullSlots = world.missing))
    /\ NullSlotCallIsFatal

\* The same in a build whose libc announces Annex K.
ResolutionFailureWithAnnexK ==
    /\ []((STDC_LIB_EXT1 /\ hist.init_complete >= 1) =>
             (initialized = 1 /\ NullSlots = world.missing))
    /\ NullSlotCallIsFatal
ResolutionFailureReached ==
    /\ STDC_LIB_EXT1
    /\ process = "crashed"
    /\ initialized = 1
    /\ \E t \in threads :
          /\ pc[t] = "call"
          /\ world.missing = {CalledThrough(t)}
          /\ NullSlots = {CalledThrough(t)}
          /\ hist.done[0]["strcpy_s"] > 0

\* libsee_initialize is unfinished on the stack of thread t, below the
\* invocation that is running.
InitializingBelow(t) ==
    \E k \in 1 .. Len(frame[t].stack) : frame[t].stack[k].pc = "init_resolve"

\* C31: Re-entrant initialization.  When a covered wrapper is called on a
\* thread whose libsee_initialize is still at its lookups, the nested call
\* starts no other run of libsee_initialize, and the run below it goes on
\* to its end and sets the flag.
ReentrantInitialization ==
    /\ [][\A t \in threads :
             InitializingBelow(t) => hist.init_runs' = hist.init_runs]_vars
    /\ [][\A t \in threads :
             (pc[t] = "init_flag" /\ pc'[t] # "init_flag") =>
                 initialized' = 1]_vars

\* The part of it that holds: a run of libsee_initialize that gets to its
\* end sets the flag, nested or not, and every run was started with the flag
\* unset.
InitializationSetsFlag ==
    /\ [][\A t \in threads :
             (pc[t] = "init_flag" /\ pc'[t] # "init_flag") =>
                 initialized' = 1]_vars
    /\ [][hist.init_runs' # hist.init_runs => initialized = 0]_vars

\* The line a call of syscall_print with a string literal is meant to emit:
\* the characters of the literal, which end with its only newline.
MeantLine == fin.buf
LastWritten == kernel.tty[Len(kernel.tty)]

\* C32: Verbose logging and exact writes.  Every call of syscall_print with
\* a string literal passes as its count the number of characters of the
\* literal, so the bytes written are the line and nothing else: in each
\* wrapper `<name>-started` and a newline, `<name>-closed` and a newline, no
\* byte after the newline and no line cut short.
ExactWrites ==
    fin.pc = "logged" =>
        /\ fin.count = Len(MeantLine)
        /\ LastWritten = MeantLine
        /\ LastWritten[Len(LastWritten)] = "\n"

\* The same for the rules and the header of the table and for the line
\* `Finalizing`.
ExactWritesOfTable ==
    (fin.pc = "logged" /\ fin.buf \in {FinalizingText, RuleText, HeaderText}) =>
        /\ fin.count = Len(MeantLine)
        /\ LastWritten = MeantLine
        /\ LastWritten[Len(LastWritten)] = "\n"

\* What the log statements of a wrapper write: the line and the NUL of the
\* literal after it.
LogWritesLineAndNul ==
    (fin.pc = "logged" /\ fin.buf \notin {b.buf : b \in finalize_prints}) =>
        /\ fin.count = Len(MeantLine) + 1
        /\ LastWritten = MeantLine \o <<NUL>>

\* A nested invocation of thread t is returning into the wrapper below it.
NestedReturning(t) ==
    pc[t] = "returned" /\ frame[t].stack # <<>> /\ pc'[t] # pc[t]
SuspendedBelow(t) == frame[t].stack[Len(frame[t].stack)]
OuterUndisturbed ==
    /\ [][\A t \in threads :
             NestedReturning(t) =>
                 /\ pc'[t] = SuspendedBelow(t).pc
                 /\ frame'[t].wrapper = SuspendedBelow(t).frame.wrapper
                 /\ frame'[t].cpu_index = SuspendedBelow(t).frame.cpu_index
                 /\ frame'[t].cycle_count_start
                       = SuspendedBelow(t).frame.cycle_count_start]_vars
    /\ [](\A t \in threads :
             ~Unset(frame[t].cycle_count) =>
                 /\ frame[t].cycle_count
                       = Elapsed(frame[t].cycle_count_end,
                                 frame[t].cycle_count_start)
                 /\ frame[t].cycle_count >= frame[t].nested_cycles)

\* C33: Nested covered calls.  When the real implementation of a covered
\* symbol calls another covered wrapper on the same thread, each of the two
\* invocations records exactly one call under its own symbol (between calls
\* every bank counts, for every symbol, the invocations completed with its
\* index, nested or not), the core index and the start mark of the outer
\* invocation are those it read before the inner one, and its elapsed value
\* is not below the cycles the inner one measured.
NestedCoveredCalls ==
    /\ [](Quiescent =>
             \A c \in CoreIds : \A s \in Symbols :
                 RecordedUnder(c, s) > 0 =>
                     /\ c \in Banks
                     /\ libsee_thread_calls[c][Field(s)] = RecordedUnder(c, s))
    /\ OuterUndisturbed

\* The same for invocations whose core index is a bank.
NestedCoveredCallsInRange ==
    /\ []((Quiescent /\ IndexesInRange) =>
             \A c \in Banks : \A s \in Symbols :
                 libsee_thread_calls[c][Field(s)] = RecordedUnder(c, s))
    /\ OuterUndisturbed
NestedCallsReached ==
    /\ Quiescent
    /\ IndexesInRange
    /\ hist.done[0]["printf"] = 1
    /\ hist.done[1]["free"] = 1
    /\ hist.done[0]["strlen"] = 1
    /\ libsee_thread_cycles[0][Field("vprintf")] = 3
    /\ libsee_thread_cycles[1][Field("free")] = 1

\* How often the entry x occurs in the array a of libsee_name_stats.
Occurrences(a, x) == Cardinality({i \in 1 .. Len(a) : a[i] = x})
SameEntries(a, b) ==
    /\ Len(a) = Len(b)
    /\ \A i \in 1 .. Len(a) : Occurrences(a, a[i]) = Occurrences(b, a[i])

\* C34: The sort only permutes rows.  After the sort, named_stats holds the
\* entries (name, total cycles, total calls) it held before, each as often
\* as before, and every row that is emitted shows a name of the catalog with
\* the totals assigned to the entry of that name.
SortPermutesRows ==
    fin.pc \in {"print", "closed"} =>
        /\ SameEntries(fin.sorted, fin.named_stats)
        /\ \A k \in 1 .. Len(fin.output) :
              fin.output[k].line = "row" =>
                  \E i \in Indexes :
                      /\ fin.named_stats[i].function_name = named_stats_labels[i]
                      /\ fin.output[k].function_name = named_stats_labels[i]
                      /\ fin.output[k].total_cycles
                            = fin.named_stats[i].total_cycles
                      /\ fin.output[k].total_calls
                            = fin.named_stats[i].total_calls
SortPermutesWitness ==
    /\ fin.pc = "closed"
    /\ fin.sorted # fin.named_stats
    /\ Cardinality({k \in 1 .. Len(fin.output) : fin.output[k].line = "row"}) = 3
    /\ \E j, k \in 1 .. Len(fin.sorted) :
          j # k /\ fin.sorted[j].total_cycles = fin.sorted[k].total_cycles
                /\ fin.sorted[j].total_cycles > 0


\* The cycles all banks held when the destructor began, added without a
\* wrap, and the cycles the emitted rows show.
CyclesBeforeReduction ==
    SumSeq([k \in 1 .. (counters_per_thread * LIBSEE_MAX_THREADS) |->
              fin.before.cycles[(k - 1) % LIBSEE_MAX_THREADS]
                               [((k - 1) \div LIBSEE_MAX_THREADS) + 1]])
EmittedRows == {k \in 1 .. Len(fin.output) : fin.output[k].line = "row"}
CyclesOfEmittedRows ==
    SumSeq([k \in 1 .. Len(fin.output) |->
              IF k \in EmittedRows THEN fin.output[k].total_cycles ELSE 0])

\* C35: Grand total.  The grand total the shares are divided by, summed
\* over all banks before the reduction, equals modulo 2^w the sum of the
\* totals of cycles the reduction leaves in bank zero; when the sum of all
\* counters does not wrap, the cycles of the rows emitted by a finished
\* report add up to the grand total and no share shown exceeds 100.
GrandTotalIsSumOfTotals ==
    fin.pc \in {"print", "closed"} =>
        /\ SumSeq([i \in Indexes |-> fin.named_stats[i].total_cycles])
              % SizeMod = fin.cycles_across_threads
        /\ (fin.pc = "closed" /\ CyclesBeforeReduction < SizeMod) =>
              /\ CyclesOfEmittedRows = fin.cycles_across_threads
              /\ \A k \in EmittedRows :
                    ShownNumber(fin.output[k].share) <= 10000

\* A finished report of three rows, its grand total the largest summed over two
\* banks, a share above 90 among them.
GrandTotalReached ==
    /\ fin.pc = "closed"
    /\ CyclesBeforeReduction < SizeMod
    /\ Cardinality(EmittedRows) = 3
    /\ fin.cycles_across_threads = SizeMod - 1
    /\ \A b \in Banks : fin.before.cycles[b][Field("strlen")] > 0
    /\ \E k \in EmittedRows : ShownNumber(fin.output[k].share) > 9000


\* C36: Row buffer bound.  For every name of the catalog and all totals of
\* cycles and calls up to 2^64-1, every byte the building of a row stores in
\* stat_line, the NULs of the helpers included, has an index below 256.
\* The buffer of the model starts empty and grows only where a byte is
\* stored, so its length is one more than the largest index stored to.
RowBufferBound ==
    fin.pc = "row_done" =>
        /\ Len(fin.stat_line) <= stat_line_size
        /\ fin.stat_line_length < stat_line_size
        /\ fin.stat_line[fin.stat_line_length + 1] = NUL
RowBufferWitness ==
    /\ fin.pc = "row_done"
    /\ fin.total_cycles = SIZE_MAX
    /\ fin.total_calls = SIZE_MAX
    /\ Len(function_name_characters[fin.function_name]) = 15
    /\ fin.stat_line_length = 92
    /\ Len(fin.stat_line) = 93


\* The three calls of libsee_pad_buffer in the building of a row: the
\* length each is given and the column it pads to.
PadCalls ==
    LET name == Len(function_name_characters[fin.function_name]) + 1
        cycles == column_widths[1]
                      + Len(libsee_print_size(fin.total_cycles, " ")) + 1
        calls == column_widths[1] + column_widths[2]
                     + Len(libsee_print_size(fin.total_calls, " ")) + 1
    IN  {[current_length |-> name, target_length |-> column_widths[1]],
         [current_length |-> cycles,
          target_length |-> column_widths[1] + column_widths[2]],
         [current_length |-> calls,
          target_length |-> column_widths[1] + column_widths[2]
                                + column_widths[3]]}
Padded(call) ==
    libsee_pad_buffer(SubSeq(fin.stat_line, 1, call.current_length),
                      call.current_length, call.target_length)

\* C37: libsee_pad_buffer never shortens a line.  Each call of it in the
\* building of a row returns the larger of current_length and
\* target_length, never less than current_length, and leaves the text
\* before current_length as it was.
PadNeverShortens ==
    fin.pc = "row_done" =>
        \A call \in PadCalls :
            /\ Padded(call).length >= call.current_length
            /\ Padded(call).length >= call.target_length
            /\ Padded(call).length
                  \in {call.current_length, call.target_length}
            /\ SubSeq(Padded(call).buffer, 1, call.current_length)
                  = SubSeq(fin.stat_line, 1, call.current_length)

\* The same for the calls whose current_length is not past the column.
PadReachesColumn ==
    fin.pc = "row_done" =>
        \A call \in PadCalls :
            call.current_length <= call.target_length =>
                /\ Padded(call).length = call.target_length
                /\ SubSeq(Padded(call).buffer, 1, call.current_length)
                      = SubSeq(fin.stat_line, 1, call.current_length)
                /\ \A k \in (call.current_length + 1) .. call.target_length :
                      Padded(call).buffer[k] = " "
                /\ Padded(call).buffer[call.target_length + 1] = NUL
====
